---- MODULE Spec2Model ----
(***************************************************************************)
(* A model of vkfft-rs, the safe Rust layer over the VkFFT native engine:  *)
(* the Job Configuration builder (src/src/config.rs), the marshaling of a  *)
(* Config into the pinned ConfigGuard, the Compute Plan App with its       *)
(* forward/inverse executions and its Drop (src/src/app.rs), and the       *)
(* mapping of native status codes to errors (src/src/error.rs).            *)
(*                                                                         *)
(* Conventions.  Option<T> is a set with at most one element: None is {}   *)
(* and Some(x) is {x}.  A Result is a record [ok, kind, variant]; kind is  *)
(* the error family ("Build", "Config", "Launch", "Native").  A pointer    *)
(* into a guard block is the name of the slot it refers to, and the null   *)
(* pointer is "null".  Native status codes are written by the names the    *)
(* generated bindings give them, since their numbers are set by the native *)
(* header and not by this repository.                                      *)
(***************************************************************************)
EXTENDS Integers, Sequences, FiniteSets, TLC

VARIABLES
  builder,      \* the ConfigBuilder being filled
  called,       \* the names of the ConfigBuilder setters called so far
  buildResult,  \* Option: what ConfigBuilder::build returned
  config,       \* Option: the Config that build returned (pub fields)
  app,          \* the Compute Plan: "Uninitialized", "Ready" or "Destroyed"
  guard,        \* Option: the ConfigGuard the plan owns
  calls,        \* the native calls, driver calls and guard releases so far, in order
  newResult,    \* Option: what App::new returned
  launched,     \* Option: the last forward/inverse call and what it returned
  nativeVersion,  \* the integer VkFFTGetVersion of the linked engine returns
  versionResult,  \* Option: the Version that version() returned
  descriptor,   \* a BufferDesc a caller holds
  described,    \* Option: what the accessors of `descriptor` returned
  fence,        \* the fence of the Device Context: "unsignaled" or "signaled"
  inflight,     \* submissions on the queue, not completed, that signal the fence
  pc,           \* for each caller of Context::submit, its position in it
  returned,     \* for each caller, Option: what its last submit returned
  digitsArg,    \* an i64 a caller formats
  digitsResult, \* Option: what digitsArg.digits() returned
  memory        \* where the plan handle and the block of its guard are, and the
                \* addresses the native structure of the guard holds

\* The variables of the pure queries and of the Device Context.
pureVars == <<nativeVersion, versionResult, descriptor, described, digitsArg, digitsResult>>

ctxVars == <<fence, inflight, pc, returned>>

vars == <<builder, called, buildResult, config, app, guard, calls, newResult, launched,
          nativeVersion, versionResult, descriptor, described,
          fence, inflight, pc, returned, digitsArg, digitsResult, memory>>

---------------------------------------------------------------------------
(* Bounds of the model *)

\* Size-only descriptors store a byte size in 0..MaxBufferSize.
MaxBufferSize == 1

\* At most this many native append calls are recorded for one plan.
MaxAppends == 2

\* How many native status codes outside the named ones the stub may report.
NumUnrecognized == 1

\* How many callers share one Device Context.
NumCallers == 2

\* At most this many queue submissions are made on the Device Context.
MaxSubmits == 2

\* The extents passed to the dimension setter lie in 1..MaxExtent, and there
\* are at most MaxDimLen of them in one call.
MaxExtent == 2

MaxDimLen == 4

\* The version integers tried are those at most MaxVersionOffset above one of
\* the VersionBases.
MaxVersionOffset == 9

\* The integers formatted are those at most MaxDigitsOffset away from a power
\* of ten, or below the largest integer the model checker represents.
MaxDigitsOffset == 1

---------------------------------------------------------------------------
(* Option and Result *)

None == {}

Some(x) == {x}

is_some(o) == o # {}

unwrap(o) == CHOOSE x \in o : TRUE

Ok == [ok |-> TRUE, kind |-> "", variant |-> ""]

Err(k, v) == [ok |-> FALSE, kind |-> k, variant |-> v]

---------------------------------------------------------------------------
(* The GPU objects of one Device Context, and the buffers of the caller *)

Buffers == {1, 2}

\* BufferAccess::size(): the byte length of a concrete buffer.
BufferByteLen(b) == 4 * b

\* internal_object().value(): the native handle of a buffer, never zero.
BufferHandle(b) == 100 + b

Precisions == {"Single", "Double", "Half", "HalfMemory"}

\* BufferDesc: a concrete buffer, or a bare byte size.
BufferDesc_Buffer(b) == [tag |-> "Buffer", v |-> b]

BufferDesc_BufferSize(n) == [tag |-> "BufferSize", v |-> n]

BufferDesc_size(d) == IF d.tag = "Buffer" THEN BufferByteLen(d.v) ELSE d.v

BufferDesc_as_buffer(d) == IF d.tag = "Buffer" THEN Some(d.v) ELSE None

\* as_buffer_size answering with the size for a concrete buffer too.
BufferDesc_as_buffer_size_Always(d) == Some(BufferDesc_size(d))

BufferDesc_as_buffer_size(d) == IF d.tag = "Buffer" THEN None ELSE Some(d.v)

---------------------------------------------------------------------------
(* ConfigBuilder *)

ConfigBuilder_new ==
  [ fft_dim |-> 1,
    size |-> <<1, 1, 1>>,
    physical_device |-> None,
    device |-> None,
    queue |-> None,
    fence |-> None,
    command_pool |-> None,
    normalize |-> FALSE,
    zero_padding |-> <<FALSE, FALSE, FALSE>>,
    zeropad_left |-> <<0, 0, 0>>,
    zeropad_right |-> <<0, 0, 0>>,
    kernel_convolution |-> FALSE,
    r2c |-> FALSE,
    coordinate_features |-> 1,
    disable_reorder_four_step |-> FALSE,
    buffer |-> None,
    temp_buffer |-> None,
    input_buffer |-> None,
    output_buffer |-> None,
    batch_count |-> None,
    precision |-> "Single",
    convolution |-> FALSE,
    use_lut |-> FALSE,
    symmetric_kernel |-> FALSE,
    input_formatted |-> None,
    output_formatted |-> None,
    kernel |-> None ]

\* dim(&[u32; N]): assert!(len <= 3) panics for more than three extents;
\* otherwise the count is the length and the first `len` extents are stored,
\* the others keeping their value.
ConfigBuilder_dim(self, dim) ==
  LET len == Len(dim)
  IN IF ~(len <= 3)
       THEN [panic |-> TRUE, self |-> self]
       ELSE [panic |-> FALSE,
             self |-> [self EXCEPT
                         !.fft_dim = len,
                         !.size = <<IF len > 0 THEN dim[1] ELSE self.size[1],
                                    IF len > 1 THEN dim[2] ELSE self.size[2],
                                    IF len > 2 THEN dim[3] ELSE self.size[3]>>]]

ConfigBuilder_physical_device(self, v) == [self EXCEPT !.physical_device = Some(v)]

ConfigBuilder_device(self, v) == [self EXCEPT !.device = Some(v)]

ConfigBuilder_queue(self, v) == [self EXCEPT !.queue = Some(v)]

ConfigBuilder_command_pool(self, v) == [self EXCEPT !.command_pool = Some(v)]

ConfigBuilder_fence(self, v) == [self EXCEPT !.fence = Some(v)]

ConfigBuilder_buffer(self, d) == [self EXCEPT !.buffer = Some(d)]

ConfigBuilder_temp_buffer(self, d) == [self EXCEPT !.temp_buffer = Some(d)]

ConfigBuilder_input_buffer(self, d) == [self EXCEPT !.input_buffer = Some(d)]

ConfigBuilder_output_buffer(self, d) == [self EXCEPT !.output_buffer = Some(d)]

ConfigBuilder_kernel(self, d) == [self EXCEPT !.kernel = Some(d)]

ConfigBuilder_normalize(self) == [self EXCEPT !.normalize = TRUE]

ConfigBuilder_kernel_convolution(self) == [self EXCEPT !.kernel_convolution = TRUE]

ConfigBuilder_symmetric_kernel(self) == [self EXCEPT !.symmetric_kernel = TRUE]

ConfigBuilder_convolution(self) == [self EXCEPT !.convolution = TRUE]

ConfigBuilder_r2c(self) == [self EXCEPT !.r2c = TRUE]

ConfigBuilder_use_lut(self) == [self EXCEPT !.use_lut = TRUE]

ConfigBuilder_coordinate_features(self, n) == [self EXCEPT !.coordinate_features = n]

ConfigBuilder_disable_reorder_four_step(self) ==
  [self EXCEPT !.disable_reorder_four_step = TRUE]

\* zero_padding(&[bool; N]): assert!(len <= 3), then the first `len` flags are
\* stored, the others keeping their value.
ConfigBuilder_zero_padding(self, zero_padding) ==
  LET len == Len(zero_padding)
  IN IF ~(len <= 3)
       THEN [panic |-> TRUE, self |-> self]
       ELSE [panic |-> FALSE,
             self |-> [self EXCEPT
                         !.zero_padding =
                           <<IF len > 0 THEN zero_padding[1] ELSE self.zero_padding[1],
                             IF len > 1 THEN zero_padding[2] ELSE self.zero_padding[2],
                             IF len > 2 THEN zero_padding[3] ELSE self.zero_padding[3]>>]]

\* zeropad_left(&[u32; N]), as zero_padding.
ConfigBuilder_zeropad_left(self, zeropad_left) ==
  LET len == Len(zeropad_left)
  IN IF ~(len <= 3)
       THEN [panic |-> TRUE, self |-> self]
       ELSE [panic |-> FALSE,
             self |-> [self EXCEPT
                         !.zeropad_left =
                           <<IF len > 0 THEN zeropad_left[1] ELSE self.zeropad_left[1],
                             IF len > 1 THEN zeropad_left[2] ELSE self.zeropad_left[2],
                             IF len > 2 THEN zeropad_left[3] ELSE self.zeropad_left[3]>>]]

\* zeropad_right(&[u32; N]), as zero_padding.
ConfigBuilder_zeropad_right(self, zeropad_right) ==
  LET len == Len(zeropad_right)
  IN IF ~(len <= 3)
       THEN [panic |-> TRUE, self |-> self]
       ELSE [panic |-> FALSE,
             self |-> [self EXCEPT
                         !.zeropad_right =
                           <<IF len > 0 THEN zeropad_right[1] ELSE self.zeropad_right[1],
                             IF len > 1 THEN zeropad_right[2] ELSE self.zeropad_right[2],
                             IF len > 2 THEN zeropad_right[3] ELSE self.zeropad_right[3]>>]]

ConfigBuilder_batch_count(self, n) == [self EXCEPT !.batch_count = Some(n)]

ConfigBuilder_input_formatted(self, f) == [self EXCEPT !.input_formatted = Some(f)]

ConfigBuilder_output_formatted(self, f) == [self EXCEPT !.output_formatted = Some(f)]

\* build() checking the queue before the device.
ConfigBuilder_build_QueueFirst(self) ==
  IF self.physical_device = None THEN [result |-> Err("Build", "NoPhysicalDevice"), config |-> None]
  ELSE IF self.queue = None THEN [result |-> Err("Build", "NoQueue"), config |-> None]
  ELSE IF self.device = None THEN [result |-> Err("Build", "NoDevice"), config |-> None]
  ELSE IF self.fence = None THEN [result |-> Err("Build", "NoFence"), config |-> None]
  ELSE IF self.command_pool = None THEN [result |-> Err("Build", "NoCommandPool"), config |-> None]
  ELSE [result |-> Ok,
        config |-> Some([self EXCEPT !.physical_device = unwrap(self.physical_device),
                                     !.device = unwrap(self.device),
                                     !.queue = unwrap(self.queue),
                                     !.fence = unwrap(self.fence),
                                     !.command_pool = unwrap(self.command_pool)])]

\* build() also demanding the primary buffer (BuildError::NoBuffer).
ConfigBuilder_build_NeedsBuffer(self) ==
  IF self.physical_device = None THEN [result |-> Err("Build", "NoPhysicalDevice"), config |-> None]
  ELSE IF self.device = None THEN [result |-> Err("Build", "NoDevice"), config |-> None]
  ELSE IF self.queue = None THEN [result |-> Err("Build", "NoQueue"), config |-> None]
  ELSE IF self.fence = None THEN [result |-> Err("Build", "NoFence"), config |-> None]
  ELSE IF self.command_pool = None THEN [result |-> Err("Build", "NoCommandPool"), config |-> None]
  ELSE IF self.buffer = None THEN [result |-> Err("Build", "NoBuffer"), config |-> None]
  ELSE [result |-> Ok,
        config |-> Some([self EXCEPT !.physical_device = unwrap(self.physical_device),
                                     !.device = unwrap(self.device),
                                     !.queue = unwrap(self.queue),
                                     !.fence = unwrap(self.fence),
                                     !.command_pool = unwrap(self.command_pool)])]

\* build(): the first missing mandatory field is the error; otherwise every
\* field of the builder is moved into the Config, the mandatory ones unwrapped.
ConfigBuilder_build(self) ==
  IF self.physical_device = None THEN [result |-> Err("Build", "NoPhysicalDevice"), config |-> None]
  ELSE IF self.device = None THEN [result |-> Err("Build", "NoDevice"), config |-> None]
  ELSE IF self.queue = None THEN [result |-> Err("Build", "NoQueue"), config |-> None]
  ELSE IF self.fence = None THEN [result |-> Err("Build", "NoFence"), config |-> None]
  ELSE IF self.command_pool = None THEN [result |-> Err("Build", "NoCommandPool"), config |-> None]
  ELSE [result |-> Ok,
        config |-> Some([self EXCEPT !.physical_device = unwrap(self.physical_device),
                                     !.device = unwrap(self.device),
                                     !.queue = unwrap(self.queue),
                                     !.fence = unwrap(self.fence),
                                     !.command_pool = unwrap(self.command_pool)])]

---------------------------------------------------------------------------
(* Read accessors of Config *)

Config_buffer(self) == self.buffer

Config_temp_buffer(self) == self.temp_buffer

Config_input_buffer(self) == self.input_buffer

Config_output_buffer(self) == self.output_buffer

Config_kernel_convolution(self) == self.kernel_convolution

\* symmetric_kernel(&self) returns the field kernel_convolution.
Config_symmetric_kernel(self) == self.kernel_convolution

Config_convolution(self) == self.convolution

Config_r2c(self) == self.r2c

Config_normalize(self) == self.normalize

Config_coordinate_features(self) == self.coordinate_features

Config_batch_count(self) == self.batch_count

Config_use_lut(self) == self.use_lut

---------------------------------------------------------------------------
(* Error taxonomy: native status codes *)

VKFFT_SUCCESS == "VKFFT_SUCCESS"

\* The failure codes the match of TryFrom<VkFFTResult> names.
NamedCodes ==
  { "VKFFT_ERROR_INVALID_PHYSICAL_DEVICE",
    "VKFFT_ERROR_INVALID_DEVICE",
    "VKFFT_ERROR_INVALID_QUEUE",
    "VKFFT_ERROR_INVALID_COMMAND_POOL",
    "VKFFT_ERROR_INVALID_FENCE",
    "VKFFT_ERROR_ONLY_FORWARD_FFT_INITIALIZED",
    "VKFFT_ERROR_ONLY_INVERSE_FFT_INITIALIZED",
    "VKFFT_ERROR_INVALID_CONTEXT",
    "VKFFT_ERROR_INVALID_PLATFORM",
    "VKFFT_ERROR_EMPTY_FFTdim",
    "VKFFT_ERROR_EMPTY_size",
    "VKFFT_ERROR_EMPTY_bufferSize",
    "VKFFT_ERROR_EMPTY_buffer",
    "VKFFT_ERROR_EMPTY_tempBufferSize",
    "VKFFT_ERROR_EMPTY_tempBuffer",
    "VKFFT_ERROR_EMPTY_inputBufferSize",
    "VKFFT_ERROR_EMPTY_inputBuffer",
    "VKFFT_ERROR_EMPTY_outputBufferSize",
    "VKFFT_ERROR_EMPTY_outputBuffer",
    "VKFFT_ERROR_EMPTY_kernelSize",
    "VKFFT_ERROR_EMPTY_kernel",
    "VKFFT_ERROR_UNSUPPORTED_RADIX",
    "VKFFT_ERROR_UNSUPPORTED_FFT_LENGTH",
    "VKFFT_ERROR_UNSUPPORTED_FFT_LENGTH_R2C",
    "VKFFT_ERROR_FAILED_TO_ALLOCATE",
    "VKFFT_ERROR_FAILED_TO_MAP_MEMORY",
    "VKFFT_ERROR_FAILED_TO_ALLOCATE_COMMAND_BUFFERS",
    "VKFFT_ERROR_FAILED_TO_BEGIN_COMMAND_BUFFER",
    "VKFFT_ERROR_FAILED_TO_END_COMMAND_BUFFER",
    "VKFFT_ERROR_FAILED_TO_SUBMIT_QUEUE",
    "VKFFT_ERROR_FAILED_TO_WAIT_FOR_FENCES",
    "VKFFT_ERROR_FAILED_TO_RESET_FENCES",
    "VKFFT_ERROR_FAILED_TO_CREATE_DESCRIPTOR_POOL",
    "VKFFT_ERROR_FAILED_TO_CREATE_DESCRIPTOR_SET_LAYOUT",
    "VKFFT_ERROR_FAILED_TO_ALLOCATE_DESCRIPTOR_SETS",
    "VKFFT_ERROR_FAILED_TO_CREATE_PIPELINE_LAYOUT",
    "VKFFT_ERROR_FAILED_SHADER_PREPROCESS",
    "VKFFT_ERROR_FAILED_SHADER_PARSE",
    "VKFFT_ERROR_FAILED_SHADER_LINK",
    "VKFFT_ERROR_FAILED_SPIRV_GENERATE",
    "VKFFT_ERROR_FAILED_TO_CREATE_SHADER_MODULE",
    "VKFFT_ERROR_FAILED_TO_CREATE_INSTANCE",
    "VKFFT_ERROR_FAILED_TO_SETUP_DEBUG_MESSENGER",
    "VKFFT_ERROR_FAILED_TO_FIND_PHYSICAL_DEVICE",
    "VKFFT_ERROR_FAILED_TO_CREATE_DEVICE",
    "VKFFT_ERROR_FAILED_TO_CREATE_FENCE",
    "VKFFT_ERROR_FAILED_TO_CREATE_COMMAND_POOL",
    "VKFFT_ERROR_FAILED_TO_CREATE_BUFFER",
    "VKFFT_ERROR_FAILED_TO_ALLOCATE_MEMORY",
    "VKFFT_ERROR_FAILED_TO_BIND_BUFFER_MEMORY",
    "VKFFT_ERROR_FAILED_TO_FIND_MEMORY",
    "VKFFT_ERROR_FAILED_TO_SYNCHRONIZE",
    "VKFFT_ERROR_FAILED_TO_COPY",
    "VKFFT_ERROR_FAILED_TO_CREATE_PROGRAM",
    "VKFFT_ERROR_FAILED_TO_COMPILE_PROGRAM",
    "VKFFT_ERROR_FAILED_TO_GET_CODE_SIZE",
    "VKFFT_ERROR_FAILED_TO_GET_CODE",
    "VKFFT_ERROR_FAILED_TO_DESTROY_PROGRAM",
    "VKFFT_ERROR_FAILED_TO_LOAD_MODULE",
    "VKFFT_ERROR_FAILED_TO_GET_FUNCTION",
    "VKFFT_ERROR_FAILED_TO_SET_DYNAMIC_SHARED_MEMORY",
    "VKFFT_ERROR_FAILED_TO_MODULE_GET_GLOBAL",
    "VKFFT_ERROR_FAILED_TO_LAUNCH_KERNEL",
    "VKFFT_ERROR_FAILED_TO_EVENT_RECORD",
    "VKFFT_ERROR_FAILED_TO_ADD_NAME_EXPRESSION",
    "VKFFT_ERROR_FAILED_TO_INITIALIZE",
    "VKFFT_ERROR_FAILED_TO_SET_DEVICE_ID",
    "VKFFT_ERROR_FAILED_TO_GET_DEVICE",
    "VKFFT_ERROR_FAILED_TO_CREATE_CONTEXT",
    "VKFFT_ERROR_FAILED_TO_CREATE_PIPELINE",
    "VKFFT_ERROR_FAILED_TO_SET_KERNEL_ARG",
    "VKFFT_ERROR_FAILED_TO_CREATE_COMMAND_QUEUE",
    "VKFFT_ERROR_FAILED_TO_RELEASE_COMMAND_QUEUE",
    "VKFFT_ERROR_FAILED_TO_ENUMERATE_DEVICES" }

\* Status codes the match does not name.
UnrecognizedPool == <<"UNRECOGNIZED_1", "UNRECOGNIZED_2", "UNRECOGNIZED_3", "UNRECOGNIZED_4">>

UnrecognizedCodes == {UnrecognizedPool[i] : i \in 1..NumUnrecognized}

AllStatuses == {VKFFT_SUCCESS} \cup NamedCodes \cup UnrecognizedCodes

\* The match with the arm of INVALID_QUEUE yielding InvalidDevice, a copy-paste slip.
Error_try_from_QueueAsDevice(value) ==
  CASE value = "VKFFT_ERROR_INVALID_PHYSICAL_DEVICE" -> Some("InvalidPhysicalDevice")
    [] value = "VKFFT_ERROR_INVALID_DEVICE" -> Some("InvalidDevice")
    [] value = "VKFFT_ERROR_INVALID_QUEUE" -> Some("InvalidDevice")
    [] value = "VKFFT_ERROR_INVALID_COMMAND_POOL" -> Some("InvalidCommandPool")
    [] value = "VKFFT_ERROR_INVALID_FENCE" -> Some("InvalidFence")
    [] value = "VKFFT_ERROR_ONLY_FORWARD_FFT_INITIALIZED" -> Some("OnlyForwardFftInitialized")
    [] value = "VKFFT_ERROR_ONLY_INVERSE_FFT_INITIALIZED" -> Some("OnlyInverseFftInitialized")
    [] value = "VKFFT_ERROR_INVALID_CONTEXT" -> Some("InvalidContext")
    [] value = "VKFFT_ERROR_INVALID_PLATFORM" -> Some("InvalidPlatform")
    [] value = "VKFFT_ERROR_EMPTY_FFTdim" -> Some("EmptyFftDim")
    [] value = "VKFFT_ERROR_EMPTY_size" -> Some("EmptySize")
    [] value = "VKFFT_ERROR_EMPTY_bufferSize" -> Some("EmptyBufferSize")
    [] value = "VKFFT_ERROR_EMPTY_buffer" -> Some("EmptyBuffer")
    [] value = "VKFFT_ERROR_EMPTY_tempBufferSize" -> Some("EmptyTempBufferSize")
    [] value = "VKFFT_ERROR_EMPTY_tempBuffer" -> Some("EmptyTempBuffer")
    [] value = "VKFFT_ERROR_EMPTY_inputBufferSize" -> Some("EmptyInputBufferSize")
    [] value = "VKFFT_ERROR_EMPTY_inputBuffer" -> Some("EmptyInputBuffer")
    [] value = "VKFFT_ERROR_EMPTY_outputBufferSize" -> Some("EmptyOutputBufferSize")
    [] value = "VKFFT_ERROR_EMPTY_outputBuffer" -> Some("EmptyOutputBuffer")
    [] value = "VKFFT_ERROR_EMPTY_kernelSize" -> Some("EmptyKernelSize")
    [] value = "VKFFT_ERROR_EMPTY_kernel" -> Some("EmptyKernel")
    [] value = "VKFFT_ERROR_UNSUPPORTED_RADIX" -> Some("UnsupportedRadix")
    [] value = "VKFFT_ERROR_UNSUPPORTED_FFT_LENGTH" -> Some("UnsupportedFftLength")
    [] value = "VKFFT_ERROR_UNSUPPORTED_FFT_LENGTH_R2C" -> Some("UnsupportedFftLengthR2C")
    [] value = "VKFFT_ERROR_FAILED_TO_ALLOCATE" -> Some("FailedToAllocate")
    [] value = "VKFFT_ERROR_FAILED_TO_MAP_MEMORY" -> Some("FailedToMapMemory")
    [] value = "VKFFT_ERROR_FAILED_TO_ALLOCATE_COMMAND_BUFFERS" -> Some("FailedToAllocateCommandBuffers")
    [] value = "VKFFT_ERROR_FAILED_TO_BEGIN_COMMAND_BUFFER" -> Some("FailedToBeginCommandBuffer")
    [] value = "VKFFT_ERROR_FAILED_TO_END_COMMAND_BUFFER" -> Some("FailedToEndCommandBuffer")
    [] value = "VKFFT_ERROR_FAILED_TO_SUBMIT_QUEUE" -> Some("FailedToSubmitQueue")
    [] value = "VKFFT_ERROR_FAILED_TO_WAIT_FOR_FENCES" -> Some("FailedToWaitForFences")
    [] value = "VKFFT_ERROR_FAILED_TO_RESET_FENCES" -> Some("FailedToResetFences")
    [] value = "VKFFT_ERROR_FAILED_TO_CREATE_DESCRIPTOR_POOL" -> Some("FailedToCreateDescriptorPool")
    [] value = "VKFFT_ERROR_FAILED_TO_CREATE_DESCRIPTOR_SET_LAYOUT" -> Some("FailedToCreatedDescriptorSetLayout")
    [] value = "VKFFT_ERROR_FAILED_TO_ALLOCATE_DESCRIPTOR_SETS" -> Some("FailedToAllocateDescriptorSets")
    [] value = "VKFFT_ERROR_FAILED_TO_CREATE_PIPELINE_LAYOUT" -> Some("FailedToCreatePipelineLayout")
    [] value = "VKFFT_ERROR_FAILED_SHADER_PREPROCESS" -> Some("FailedShaderPreprocess")
    [] value = "VKFFT_ERROR_FAILED_SHADER_PARSE" -> Some("FailedShaderParse")
    [] value = "VKFFT_ERROR_FAILED_SHADER_LINK" -> Some("FailedShaderLink")
    [] value = "VKFFT_ERROR_FAILED_SPIRV_GENERATE" -> Some("FailedSpirvGenerate")
    [] value = "VKFFT_ERROR_FAILED_TO_CREATE_SHADER_MODULE" -> Some("FailedToCreateShaderModule")
    [] value = "VKFFT_ERROR_FAILED_TO_CREATE_INSTANCE" -> Some("FailedToCreateInstance")
    [] value = "VKFFT_ERROR_FAILED_TO_SETUP_DEBUG_MESSENGER" -> Some("FailedToSetupDebugMessenger")
    [] value = "VKFFT_ERROR_FAILED_TO_FIND_PHYSICAL_DEVICE" -> Some("FailedToFindPhysicalDevice")
    [] value = "VKFFT_ERROR_FAILED_TO_CREATE_DEVICE" -> Some("FailedToCreateDevice")
    [] value = "VKFFT_ERROR_FAILED_TO_CREATE_FENCE" -> Some("FailedToCreateFence")
    [] value = "VKFFT_ERROR_FAILED_TO_CREATE_COMMAND_POOL" -> Some("FailedToCreateCommandPool")
    [] value = "VKFFT_ERROR_FAILED_TO_CREATE_BUFFER" -> Some("FailedToCreateBuffer")
    [] value = "VKFFT_ERROR_FAILED_TO_ALLOCATE_MEMORY" -> Some("FailedToAllocateMemory")
    [] value = "VKFFT_ERROR_FAILED_TO_BIND_BUFFER_MEMORY" -> Some("FailedToBindBufferMemory")
    [] value = "VKFFT_ERROR_FAILED_TO_FIND_MEMORY" -> Some("FailedToFindMemory")
    [] value = "VKFFT_ERROR_FAILED_TO_SYNCHRONIZE" -> Some("FailedToSynchronize")
    [] value = "VKFFT_ERROR_FAILED_TO_COPY" -> Some("FailedToCopy")
    [] value = "VKFFT_ERROR_FAILED_TO_CREATE_PROGRAM" -> Some("FailedToCreateProgram")
    [] value = "VKFFT_ERROR_FAILED_TO_COMPILE_PROGRAM" -> Some("FailedToCompileProgram")
    [] value = "VKFFT_ERROR_FAILED_TO_GET_CODE_SIZE" -> Some("FailedToGetCodeSize")
    [] value = "VKFFT_ERROR_FAILED_TO_GET_CODE" -> Some("FailedToGetCode")
    [] value = "VKFFT_ERROR_FAILED_TO_DESTROY_PROGRAM" -> Some("FailedToDestroyProgram")
    [] value = "VKFFT_ERROR_FAILED_TO_LOAD_MODULE" -> Some("FailedToLoadModule")
    [] value = "VKFFT_ERROR_FAILED_TO_GET_FUNCTION" -> Some("FailedToGetFunction")
    [] value = "VKFFT_ERROR_FAILED_TO_SET_DYNAMIC_SHARED_MEMORY" -> Some("FailedToSetDynamicSharedMemory")
    [] value = "VKFFT_ERROR_FAILED_TO_MODULE_GET_GLOBAL" -> Some("FailedToModuleGetGlobal")
    [] value = "VKFFT_ERROR_FAILED_TO_LAUNCH_KERNEL" -> Some("FailedToLaunchKernel")
    [] value = "VKFFT_ERROR_FAILED_TO_EVENT_RECORD" -> Some("FailedToEventRecord")
    [] value = "VKFFT_ERROR_FAILED_TO_ADD_NAME_EXPRESSION" -> Some("FailedToAddNameExpression")
    [] value = "VKFFT_ERROR_FAILED_TO_INITIALIZE" -> Some("FailedToInitialize")
    [] value = "VKFFT_ERROR_FAILED_TO_SET_DEVICE_ID" -> Some("FailedToSetDeviceId")
    [] value = "VKFFT_ERROR_FAILED_TO_GET_DEVICE" -> Some("FailedToGetDevice")
    [] value = "VKFFT_ERROR_FAILED_TO_CREATE_CONTEXT" -> Some("FailedToCreateContext")
    [] value = "VKFFT_ERROR_FAILED_TO_CREATE_PIPELINE" -> Some("FailedToCreatePipeline")
    [] value = "VKFFT_ERROR_FAILED_TO_SET_KERNEL_ARG" -> Some("FailedToSetKernelArg")
    [] value = "VKFFT_ERROR_FAILED_TO_CREATE_COMMAND_QUEUE" -> Some("FailedToCreateCommandQueue")
    [] value = "VKFFT_ERROR_FAILED_TO_RELEASE_COMMAND_QUEUE" -> Some("FailedToReleaseCommandQueue")
    [] value = "VKFFT_ERROR_FAILED_TO_ENUMERATE_DEVICES" -> Some("FailedToEnumerateDevices")
    [] OTHER -> None

\* TryFrom<VkFFTResult> for Error: Some(variant) is Ok(variant), None is Err(()).
Error_try_from(value) ==
  CASE value = "VKFFT_ERROR_INVALID_PHYSICAL_DEVICE" -> Some("InvalidPhysicalDevice")
    [] value = "VKFFT_ERROR_INVALID_DEVICE" -> Some("InvalidDevice")
    [] value = "VKFFT_ERROR_INVALID_QUEUE" -> Some("InvalidQueue")
    [] value = "VKFFT_ERROR_INVALID_COMMAND_POOL" -> Some("InvalidCommandPool")
    [] value = "VKFFT_ERROR_INVALID_FENCE" -> Some("InvalidFence")
    [] value = "VKFFT_ERROR_ONLY_FORWARD_FFT_INITIALIZED" -> Some("OnlyForwardFftInitialized")
    [] value = "VKFFT_ERROR_ONLY_INVERSE_FFT_INITIALIZED" -> Some("OnlyInverseFftInitialized")
    [] value = "VKFFT_ERROR_INVALID_CONTEXT" -> Some("InvalidContext")
    [] value = "VKFFT_ERROR_INVALID_PLATFORM" -> Some("InvalidPlatform")
    [] value = "VKFFT_ERROR_EMPTY_FFTdim" -> Some("EmptyFftDim")
    [] value = "VKFFT_ERROR_EMPTY_size" -> Some("EmptySize")
    [] value = "VKFFT_ERROR_EMPTY_bufferSize" -> Some("EmptyBufferSize")
    [] value = "VKFFT_ERROR_EMPTY_buffer" -> Some("EmptyBuffer")
    [] value = "VKFFT_ERROR_EMPTY_tempBufferSize" -> Some("EmptyTempBufferSize")
    [] value = "VKFFT_ERROR_EMPTY_tempBuffer" -> Some("EmptyTempBuffer")
    [] value = "VKFFT_ERROR_EMPTY_inputBufferSize" -> Some("EmptyInputBufferSize")
    [] value = "VKFFT_ERROR_EMPTY_inputBuffer" -> Some("EmptyInputBuffer")
    [] value = "VKFFT_ERROR_EMPTY_outputBufferSize" -> Some("EmptyOutputBufferSize")
    [] value = "VKFFT_ERROR_EMPTY_outputBuffer" -> Some("EmptyOutputBuffer")
    [] value = "VKFFT_ERROR_EMPTY_kernelSize" -> Some("EmptyKernelSize")
    [] value = "VKFFT_ERROR_EMPTY_kernel" -> Some("EmptyKernel")
    [] value = "VKFFT_ERROR_UNSUPPORTED_RADIX" -> Some("UnsupportedRadix")
    [] value = "VKFFT_ERROR_UNSUPPORTED_FFT_LENGTH" -> Some("UnsupportedFftLength")
    [] value = "VKFFT_ERROR_UNSUPPORTED_FFT_LENGTH_R2C" -> Some("UnsupportedFftLengthR2C")
    [] value = "VKFFT_ERROR_FAILED_TO_ALLOCATE" -> Some("FailedToAllocate")
    [] value = "VKFFT_ERROR_FAILED_TO_MAP_MEMORY" -> Some("FailedToMapMemory")
    [] value = "VKFFT_ERROR_FAILED_TO_ALLOCATE_COMMAND_BUFFERS" -> Some("FailedToAllocateCommandBuffers")
    [] value = "VKFFT_ERROR_FAILED_TO_BEGIN_COMMAND_BUFFER" -> Some("FailedToBeginCommandBuffer")
    [] value = "VKFFT_ERROR_FAILED_TO_END_COMMAND_BUFFER" -> Some("FailedToEndCommandBuffer")
    [] value = "VKFFT_ERROR_FAILED_TO_SUBMIT_QUEUE" -> Some("FailedToSubmitQueue")
    [] value = "VKFFT_ERROR_FAILED_TO_WAIT_FOR_FENCES" -> Some("FailedToWaitForFences")
    [] value = "VKFFT_ERROR_FAILED_TO_RESET_FENCES" -> Some("FailedToResetFences")
    [] value = "VKFFT_ERROR_FAILED_TO_CREATE_DESCRIPTOR_POOL" -> Some("FailedToCreateDescriptorPool")
    [] value = "VKFFT_ERROR_FAILED_TO_CREATE_DESCRIPTOR_SET_LAYOUT" -> Some("FailedToCreatedDescriptorSetLayout")
    [] value = "VKFFT_ERROR_FAILED_TO_ALLOCATE_DESCRIPTOR_SETS" -> Some("FailedToAllocateDescriptorSets")
    [] value = "VKFFT_ERROR_FAILED_TO_CREATE_PIPELINE_LAYOUT" -> Some("FailedToCreatePipelineLayout")
    [] value = "VKFFT_ERROR_FAILED_SHADER_PREPROCESS" -> Some("FailedShaderPreprocess")
    [] value = "VKFFT_ERROR_FAILED_SHADER_PARSE" -> Some("FailedShaderParse")
    [] value = "VKFFT_ERROR_FAILED_SHADER_LINK" -> Some("FailedShaderLink")
    [] value = "VKFFT_ERROR_FAILED_SPIRV_GENERATE" -> Some("FailedSpirvGenerate")
    [] value = "VKFFT_ERROR_FAILED_TO_CREATE_SHADER_MODULE" -> Some("FailedToCreateShaderModule")
    [] value = "VKFFT_ERROR_FAILED_TO_CREATE_INSTANCE" -> Some("FailedToCreateInstance")
    [] value = "VKFFT_ERROR_FAILED_TO_SETUP_DEBUG_MESSENGER" -> Some("FailedToSetupDebugMessenger")
    [] value = "VKFFT_ERROR_FAILED_TO_FIND_PHYSICAL_DEVICE" -> Some("FailedToFindPhysicalDevice")
    [] value = "VKFFT_ERROR_FAILED_TO_CREATE_DEVICE" -> Some("FailedToCreateDevice")
    [] value = "VKFFT_ERROR_FAILED_TO_CREATE_FENCE" -> Some("FailedToCreateFence")
    [] value = "VKFFT_ERROR_FAILED_TO_CREATE_COMMAND_POOL" -> Some("FailedToCreateCommandPool")
    [] value = "VKFFT_ERROR_FAILED_TO_CREATE_BUFFER" -> Some("FailedToCreateBuffer")
    [] value = "VKFFT_ERROR_FAILED_TO_ALLOCATE_MEMORY" -> Some("FailedToAllocateMemory")
    [] value = "VKFFT_ERROR_FAILED_TO_BIND_BUFFER_MEMORY" -> Some("FailedToBindBufferMemory")
    [] value = "VKFFT_ERROR_FAILED_TO_FIND_MEMORY" -> Some("FailedToFindMemory")
    [] value = "VKFFT_ERROR_FAILED_TO_SYNCHRONIZE" -> Some("FailedToSynchronize")
    [] value = "VKFFT_ERROR_FAILED_TO_COPY" -> Some("FailedToCopy")
    [] value = "VKFFT_ERROR_FAILED_TO_CREATE_PROGRAM" -> Some("FailedToCreateProgram")
    [] value = "VKFFT_ERROR_FAILED_TO_COMPILE_PROGRAM" -> Some("FailedToCompileProgram")
    [] value = "VKFFT_ERROR_FAILED_TO_GET_CODE_SIZE" -> Some("FailedToGetCodeSize")
    [] value = "VKFFT_ERROR_FAILED_TO_GET_CODE" -> Some("FailedToGetCode")
    [] value = "VKFFT_ERROR_FAILED_TO_DESTROY_PROGRAM" -> Some("FailedToDestroyProgram")
    [] value = "VKFFT_ERROR_FAILED_TO_LOAD_MODULE" -> Some("FailedToLoadModule")
    [] value = "VKFFT_ERROR_FAILED_TO_GET_FUNCTION" -> Some("FailedToGetFunction")
    [] value = "VKFFT_ERROR_FAILED_TO_SET_DYNAMIC_SHARED_MEMORY" -> Some("FailedToSetDynamicSharedMemory")
    [] value = "VKFFT_ERROR_FAILED_TO_MODULE_GET_GLOBAL" -> Some("FailedToModuleGetGlobal")
    [] value = "VKFFT_ERROR_FAILED_TO_LAUNCH_KERNEL" -> Some("FailedToLaunchKernel")
    [] value = "VKFFT_ERROR_FAILED_TO_EVENT_RECORD" -> Some("FailedToEventRecord")
    [] value = "VKFFT_ERROR_FAILED_TO_ADD_NAME_EXPRESSION" -> Some("FailedToAddNameExpression")
    [] value = "VKFFT_ERROR_FAILED_TO_INITIALIZE" -> Some("FailedToInitialize")
    [] value = "VKFFT_ERROR_FAILED_TO_SET_DEVICE_ID" -> Some("FailedToSetDeviceId")
    [] value = "VKFFT_ERROR_FAILED_TO_GET_DEVICE" -> Some("FailedToGetDevice")
    [] value = "VKFFT_ERROR_FAILED_TO_CREATE_CONTEXT" -> Some("FailedToCreateContext")
    [] value = "VKFFT_ERROR_FAILED_TO_CREATE_PIPELINE" -> Some("FailedToCreatePipeline")
    [] value = "VKFFT_ERROR_FAILED_TO_SET_KERNEL_ARG" -> Some("FailedToSetKernelArg")
    [] value = "VKFFT_ERROR_FAILED_TO_CREATE_COMMAND_QUEUE" -> Some("FailedToCreateCommandQueue")
    [] value = "VKFFT_ERROR_FAILED_TO_RELEASE_COMMAND_QUEUE" -> Some("FailedToReleaseCommandQueue")
    [] value = "VKFFT_ERROR_FAILED_TO_ENUMERATE_DEVICES" -> Some("FailedToEnumerateDevices")
    [] OTHER -> None

\* check_error: a status the conversion maps is the error, any other is Ok(()).
check_error(result) ==
  IF is_some(Error_try_from(result)) THEN Err("Native", unwrap(Error_try_from(result)))
  ELSE Ok

---------------------------------------------------------------------------
(* Native Configuration Guard: Config::as_sys *)

\* The objects of the Device Context and their native handles.
ContextHandle(r) ==
  CASE r = "physical" -> 11
    [] r = "device" -> 12
    [] r = "queue" -> 13
    [] r = "pool" -> 14
    [] r = "fence" -> 15

\* bool.into(): 1 for true, 0 for false.
BoolInto(b) == IF b THEN 1 ELSE 0

\* The size of an absent descriptor taken as 1.
DescSizeOrZero_One(opt) == IF opt = None THEN 1 ELSE BufferDesc_size(unwrap(opt))

\* opt.as_ref().map(|b| b.size()).unwrap_or(0)
DescSizeOrZero(opt) == IF opt = None THEN 0 ELSE BufferDesc_size(unwrap(opt))

\* opt.as_ref().map(|b| b.as_buffer()).flatten()
DescBuffer(opt) == IF opt = None THEN None ELSE BufferDesc_as_buffer(unwrap(opt))

\* ... .map(|b| b.inner().buffer.internal_object().value())
DescHandle(opt) == {BufferHandle(b) : b \in DescBuffer(opt)}

\* std::mem::zeroed::<VkFFTConfiguration>(), the fields this layer knows.
VkFFTConfiguration_zeroed ==
  [ FFTdim |-> 0,
    size |-> <<0, 0, 0>>,
    physicalDevice |-> "null",
    device |-> "null",
    queue |-> "null",
    commandPool |-> "null",
    fence |-> "null",
    normalize |-> 0,
    kernelNum |-> 0, kernelSize |-> "null", kernel |-> "null",
    bufferNum |-> 0, bufferSize |-> "null", buffer |-> "null",
    tempBufferNum |-> 0, tempBufferSize |-> "null", tempBuffer |-> "null",
    inputBufferNum |-> 0, inputBufferSize |-> "null", inputBuffer |-> "null",
    outputBufferNum |-> 0, outputBufferSize |-> "null", outputBuffer |-> "null",
    performZeropadding |-> <<0, 0, 0>>,
    fft_zeropad_left |-> <<0, 0, 0>>,
    fft_zeropad_right |-> <<0, 0, 0>>,
    kernelConvolution |-> 0,
    performConvolution |-> 0,
    performR2C |-> 0,
    coordinateFeatures |-> 0,
    disableReorderFourStep |-> 0,
    symmetricKernel |-> 0,
    useLUT |-> 0,
    isInputFormatted |-> 0,
    isOutputFormatted |-> 0,
    doublePrecision |-> 0,
    halfPrecision |-> 0,
    halfPrecisionMemoryOnly |-> 0,
    numberBatches |-> 0 ]

\* The guard keeping no reference to the kernel buffer.
Config_keep_alive_NoKernel(self) ==
  [ device |-> self.device,
    queue |-> self.queue,
    command_pool |-> self.command_pool,
    buffer |-> DescBuffer(self.buffer),
    input_buffer |-> DescBuffer(self.input_buffer),
    output_buffer |-> DescBuffer(self.output_buffer),
    temp_buffer |-> DescBuffer(self.temp_buffer),
    kernel |-> None ]

\* The strong references the guard holds.
Config_keep_alive(self) ==
  [ device |-> self.device,
    queue |-> self.queue,
    command_pool |-> self.command_pool,
    buffer |-> DescBuffer(self.buffer),
    input_buffer |-> DescBuffer(self.input_buffer),
    output_buffer |-> DescBuffer(self.output_buffer),
    temp_buffer |-> DescBuffer(self.temp_buffer),
    kernel |-> DescBuffer(self.kernel) ]

\* Box::pin(ConfigGuard { .. }): the block before the structure is filled.
Config_guard_block(self) ==
  [ keep_alive |-> Config_keep_alive(self),
    config |-> VkFFTConfiguration_zeroed,
    physical_device |-> ContextHandle(self.physical_device),
    device |-> ContextHandle(self.device),
    queue |-> ContextHandle(self.queue),
    command_pool |-> ContextHandle(self.command_pool),
    fence |-> ContextHandle(self.fence),
    buffer_size |-> DescSizeOrZero(self.buffer),
    temp_buffer_size |-> DescSizeOrZero(self.temp_buffer),
    input_buffer_size |-> DescSizeOrZero(self.input_buffer),
    output_buffer_size |-> DescSizeOrZero(self.output_buffer),
    kernel_size |-> DescSizeOrZero(self.kernel),
    buffer |-> DescHandle(self.buffer),
    temp_buffer |-> DescHandle(self.temp_buffer),
    input_buffer |-> DescHandle(self.input_buffer),
    output_buffer |-> DescHandle(self.output_buffer),
    kernel |-> DescHandle(self.kernel) ]

\* The structure as filled up to the precision match: every assignment of
\* as_sys before `match self.precision`, in the order of the source.
Config_fill(self, res) ==
  [ res.config EXCEPT
      !.FFTdim = self.fft_dim,
      !.size = self.size,
      !.physicalDevice = "physical_device",
      !.device = "device",
      !.queue = "queue",
      !.commandPool = "command_pool",
      !.fence = "fence",
      !.normalize = BoolInto(self.normalize),
      !.kernelNum = IF res.kernel_size # 0 THEN 1 ELSE 0,
      !.kernelSize = IF res.kernel_size # 0 THEN "kernel_size" ELSE "null",
      !.kernel = IF is_some(res.kernel) THEN "kernel" ELSE "null",
      !.bufferNum = IF res.buffer_size # 0 THEN 1 ELSE 0,
      !.bufferSize = IF res.buffer_size # 0 THEN "buffer_size" ELSE "null",
      !.buffer = IF is_some(res.buffer) THEN "buffer" ELSE "null",
      !.tempBufferNum = IF res.temp_buffer_size # 0 THEN 1 ELSE 0,
      !.tempBufferSize = IF res.temp_buffer_size # 0 THEN "temp_buffer_size" ELSE "null",
      !.tempBuffer = IF is_some(res.temp_buffer) THEN "temp_buffer" ELSE "null",
      !.inputBufferNum = IF res.input_buffer_size # 0 THEN 1 ELSE 0,
      !.inputBufferSize = IF res.input_buffer_size # 0 THEN "input_buffer_size" ELSE "null",
      !.inputBuffer = IF is_some(res.input_buffer) THEN "input_buffer" ELSE "null",
      !.outputBufferNum = IF res.output_buffer_size # 0 THEN 1 ELSE 0,
      !.outputBufferSize = IF res.output_buffer_size # 0 THEN "output_buffer_size" ELSE "null",
      !.outputBuffer = IF is_some(res.output_buffer) THEN "output_buffer" ELSE "null",
      !.performZeropadding = <<BoolInto(self.zero_padding[1]),
                               BoolInto(self.zero_padding[2]),
                               BoolInto(self.zero_padding[3])>>,
      !.fft_zeropad_left = self.zeropad_left,
      !.fft_zeropad_right = self.zeropad_right,
      !.kernelConvolution = BoolInto(self.kernel_convolution),
      !.performR2C = BoolInto(self.r2c),
      !.coordinateFeatures = self.coordinate_features,
      !.disableReorderFourStep = BoolInto(self.disable_reorder_four_step),
      !.symmetricKernel = BoolInto(self.symmetric_kernel),
      !.isInputFormatted = IF is_some(self.input_formatted)
                             THEN BoolInto(unwrap(self.input_formatted)) ELSE 0,
      !.isOutputFormatted = IF is_some(self.output_formatted)
                              THEN BoolInto(unwrap(self.output_formatted)) ELSE 0 ]

\* The precision match overriding an explicit `false` instead of refusing it.
Config_precision_Override(self, c) ==
  CASE self.precision = "Double" -> [result |-> Ok, config |-> [c EXCEPT !.doublePrecision = 1]]
    [] self.precision = "Half" -> [result |-> Ok, config |-> [c EXCEPT !.halfPrecision = 1]]
    [] self.precision = "HalfMemory" ->
         [result |-> Ok,
          config |-> [c EXCEPT !.halfPrecisionMemoryOnly = 1,
                               !.isInputFormatted = 1,
                               !.isOutputFormatted = 1]]
    [] OTHER -> [result |-> Ok, config |-> c]

\* `match self.precision`: the precision flag; half-memory-only refuses an
\* explicit `false` of either formatted flag and otherwise forces both to true.
Config_precision(self, c) ==
  CASE self.precision = "Double" -> [result |-> Ok, config |-> [c EXCEPT !.doublePrecision = 1]]
    [] self.precision = "Half" -> [result |-> Ok, config |-> [c EXCEPT !.halfPrecision = 1]]
    [] self.precision = "HalfMemory" ->
         IF self.input_formatted = Some(FALSE)
           THEN [result |-> Err("Config", "InvalidConfig"), config |-> c]
         ELSE IF self.output_formatted = Some(FALSE)
           THEN [result |-> Err("Config", "InvalidConfig"), config |-> c]
         ELSE [result |-> Ok,
               config |-> [c EXCEPT !.halfPrecisionMemoryOnly = 1,
                                    !.isInputFormatted = 1,
                                    !.isOutputFormatted = 1]]
    [] OTHER -> [result |-> Ok, config |-> c]

\* as_sys without its last assignment: the batch count is never stored.
Config_as_sys_NoBatch(self) ==
  LET res == Config_guard_block(self)
      p == Config_precision(self, Config_fill(self, res))
  IN IF ~p.result.ok
       THEN [result |-> p.result, guard |-> None]
       ELSE [result |-> Ok, guard |-> Some([res EXCEPT !.config = p.config])]

\* Config::as_sys: Ok with the pinned guard, or Err(ConfigError) and no guard
\* (the block built so far is dropped on the early return).
Config_as_sys(self) ==
  LET res == Config_guard_block(self)
      p == Config_precision(self, Config_fill(self, res))
  IN IF ~p.result.ok
       THEN [result |-> p.result, guard |-> None]
       ELSE [result |-> Ok,
             guard |-> Some([res EXCEPT !.config =
                         IF is_some(self.batch_count)
                           THEN [p.config EXCEPT !.numberBatches = unwrap(self.batch_count)]
                           ELSE p.config])]

---------------------------------------------------------------------------
(* Addresses of the guard block *)

\* The fields of #[repr(C)] struct ConfigGuard, in the order of the layout.
ConfigGuard_slots ==
  << "keep_alive", "config", "physical_device", "device", "queue", "command_pool",
     "fence", "buffer_size", "buffer", "input_buffer_size", "input_buffer",
     "output_buffer_size", "output_buffer", "temp_buffer_size", "temp_buffer",
     "kernel_size", "kernel" >>

\* The pointer fields of VkFFTConfiguration that as_sys assigns.
ConfigGuard_pointer_fields ==
  { "physicalDevice", "device", "queue", "commandPool", "fence",
    "kernelSize", "kernel", "bufferSize", "buffer", "tempBufferSize", "tempBuffer",
    "inputBufferSize", "inputBuffer", "outputBufferSize", "outputBuffer" }

\* The addresses as_sys stores in the structure of the guard g whose block
\* Box::pin allocated at `addr`: addr_of_mut!(res.slot) and &res.slot are the
\* address of the block plus the offset of the slot; 0 is the null pointer.
ConfigGuard_pointers(g, addr) ==
  [ f \in ConfigGuard_pointer_fields |->
      IF g.config[f] = "null" THEN 0
      ELSE addr + (CHOOSE n \in 1..Len(ConfigGuard_slots) : ConfigGuard_slots[n] = g.config[f]) ]

\* The guard stored in the plan by value: its block is where the plan is.
Box_moved_Inline(addr, to) == to

\* The address of a block owned through Pin<Box<_>> and allocated at `addr`,
\* after its owner was moved to the location `to`: the owner holds the
\* pointer to the block, and only the pointer moves.
Box_moved(addr, to) == addr

---------------------------------------------------------------------------
(* Launch Parameters and the Native Launch Guard *)

\* LaunchParams with the given optional buffer overrides.
LaunchParams_of(b, t, i, o, k) ==
  [ command_buffer |-> 21,
    buffer |-> b,
    temp_buffer |-> t,
    input_buffer |-> i,
    output_buffer |-> o,
    kernel |-> k ]

\* self.x.as_ref().map(Self::buffer_object)
LaunchParams_buffer_object(opt) == {BufferHandle(b) : b \in opt}

\* std::mem::zeroed::<VkFFTLaunchParams>()
VkFFTLaunchParams_zeroed ==
  [ commandBuffer |-> "null",
    buffer |-> "null",
    tempBuffer |-> "null",
    inputBuffer |-> "null",
    outputBuffer |-> "null",
    kernel |-> "null" ]

\* LaunchParams::as_sys: the pinned LaunchParamsGuard; it holds handles only.
LaunchParams_as_sys(self) ==
  LET res == [ command_buffer |-> self.command_buffer,
               buffer |-> LaunchParams_buffer_object(self.buffer),
               temp_buffer |-> LaunchParams_buffer_object(self.temp_buffer),
               input_buffer |-> LaunchParams_buffer_object(self.input_buffer),
               output_buffer |-> LaunchParams_buffer_object(self.output_buffer),
               kernel |-> LaunchParams_buffer_object(self.kernel) ]
  IN [ params |->
         [ VkFFTLaunchParams_zeroed EXCEPT
             !.commandBuffer = "command_buffer",
             !.buffer = IF is_some(res.buffer) THEN "buffer" ELSE "null",
             !.tempBuffer = IF is_some(res.temp_buffer) THEN "temp_buffer" ELSE "null",
             !.inputBuffer = IF is_some(res.input_buffer) THEN "input_buffer" ELSE "null",
             !.outputBuffer = IF is_some(res.output_buffer) THEN "output_buffer" ELSE "null",
             !.kernel = IF is_some(res.kernel) THEN "kernel" ELSE "null" ],
       command_buffer |-> res.command_buffer,
       buffer |-> res.buffer,
       temp_buffer |-> res.temp_buffer,
       input_buffer |-> res.input_buffer,
       output_buffer |-> res.output_buffer,
       kernel |-> res.kernel ]

---------------------------------------------------------------------------
(* Compute Plan: App *)

\* An entry of `calls`: a native call (dir is the direction flag of an append,
\* 0 otherwise) or the release of the ConfigGuard.
Call(name, dir) == [call |-> name, dir |-> dir]

\* Drop for App releasing the guard before the native teardown.
App_drop_GuardFirst == <<Call("drop ConfigGuard", 0), Call("deleteVkFFT", 0)>>

\* Drop for App: deleteVkFFT in drop(), then the fields are dropped, the
\* guard (and the references it keeps alive) among them.
App_drop == <<Call("deleteVkFFT", 0), Call("drop ConfigGuard", 0)>>

\* App::new forgetting the plan when initialization fails, so that Drop
\* never runs for it.
App_new_LeakOnError(cfg, status) ==
  LET sys == Config_as_sys(cfg)
      init == check_error(status)
  IN IF ~sys.result.ok
       THEN [result |-> sys.result, app |-> "Uninitialized", guard |-> None,
             calls |-> <<Call("drop ConfigGuard", 0)>>, status |-> "none"]
     ELSE IF ~init.ok
       THEN [result |-> init, app |-> "Destroyed", guard |-> None,
             calls |-> <<Call("initializeVkFFT", 0)>>, status |-> status]
     ELSE [result |-> Ok, app |-> "Ready", guard |-> sys.guard,
           calls |-> <<Call("initializeVkFFT", 0)>>, status |-> status]

\* App::new(config) with the native initialization reporting `status`: the
\* marshaling error is returned before any native call; a failure status is
\* returned after the boxed App, already built, is dropped.
App_new(cfg, status) ==
  LET sys == Config_as_sys(cfg)
      init == check_error(status)
  IN IF ~sys.result.ok
       THEN [result |-> sys.result, app |-> "Uninitialized", guard |-> None,
             calls |-> <<Call("drop ConfigGuard", 0)>>, status |-> "none"]
     ELSE IF ~init.ok
       THEN [result |-> init, app |-> "Destroyed", guard |-> None,
             calls |-> <<Call("initializeVkFFT", 0)>> \o App_drop, status |-> status]
     ELSE [result |-> Ok, app |-> "Ready", guard |-> sys.guard,
           calls |-> <<Call("initializeVkFFT", 0)>>, status |-> status]

\* The checks of launch in another order: temp buffer before buffer.
App_launch_check_TempFirst(g, p) ==
  IF is_some(g.temp_buffer) /\ is_some(p.temp_buffer)
    THEN Some("ConfigSpecifiesTempBuffer")
  ELSE IF is_some(g.buffer) /\ is_some(p.buffer)
    THEN Some("ConfigSpecifiesBuffer")
  ELSE IF is_some(g.input_buffer) /\ is_some(p.input_buffer)
    THEN Some("ConfigSpecifiesInputBuffer")
  ELSE IF is_some(g.output_buffer) /\ is_some(p.output_buffer)
    THEN Some("ConfigSpecifiesOutputBuffer")
  ELSE None

\* The checks of launch on the recorded sizes instead of the handles.
App_launch_check_BySize(g, p) ==
  IF g.buffer_size # 0 /\ is_some(p.buffer)
    THEN Some("ConfigSpecifiesBuffer")
  ELSE IF g.temp_buffer_size # 0 /\ is_some(p.temp_buffer)
    THEN Some("ConfigSpecifiesTempBuffer")
  ELSE IF g.input_buffer_size # 0 /\ is_some(p.input_buffer)
    THEN Some("ConfigSpecifiesInputBuffer")
  ELSE IF g.output_buffer_size # 0 /\ is_some(p.output_buffer)
    THEN Some("ConfigSpecifiesOutputBuffer")
  ELSE None

\* The mutual-exclusivity checks of launch, on the two guards: Some(variant)
\* is the early return Err(LaunchError::variant).
App_launch_check(g, p) ==
  IF is_some(g.buffer) /\ is_some(p.buffer)
    THEN Some("ConfigSpecifiesBuffer")
  ELSE IF is_some(g.temp_buffer) /\ is_some(p.temp_buffer)
    THEN Some("ConfigSpecifiesTempBuffer")
  ELSE IF is_some(g.input_buffer) /\ is_some(p.input_buffer)
    THEN Some("ConfigSpecifiesInputBuffer")
  ELSE IF is_some(g.output_buffer) /\ is_some(p.output_buffer)
    THEN Some("ConfigSpecifiesOutputBuffer")
  ELSE None

\* launch submitting the command buffer itself after the append.
App_launch_Submitting(g, params, inverse, status) ==
  LET p == LaunchParams_as_sys(params)
      e == App_launch_check(g, p)
  IN IF is_some(e)
       THEN [result |-> Err("Launch", unwrap(e)), calls |-> <<>>, status |-> "none"]
       ELSE [result |-> check_error(status),
             calls |-> <<Call("VkFFTAppend", IF inverse THEN 1 ELSE -1),
                         Call("Queue::submit", 0)>>,
             status |-> status]

\* launch making the native append before the mutual-exclusivity checks.
App_launch_AppendFirst(g, params, inverse, status) ==
  LET p == LaunchParams_as_sys(params)
      e == App_launch_check(g, p)
  IN [result |-> IF is_some(e) THEN Err("Launch", unwrap(e)) ELSE check_error(status),
      calls |-> <<Call("VkFFTAppend", IF inverse THEN 1 ELSE -1)>>,
      status |-> status]

\* App::launch(params, inverse) with the native append reporting `status`.
App_launch(g, params, inverse, status) ==
  LET p == LaunchParams_as_sys(params)
      e == App_launch_check(g, p)
  IN IF is_some(e)
       THEN [result |-> Err("Launch", unwrap(e)), calls |-> <<>>, status |-> "none"]
       ELSE [result |-> check_error(status),
             calls |-> <<Call("VkFFTAppend", IF inverse THEN 1 ELSE -1)>>,
             status |-> status]

App_forward(g, params, status) == App_launch(g, params, FALSE, status)

\* inverse passing `false` like forward.
App_inverse_AsForward(g, params, status) == App_launch(g, params, FALSE, status)

App_inverse(g, params, status) == App_launch(g, params, TRUE, status)

---------------------------------------------------------------------------
(* Device Context: Context::submit *)

\* What a driver call (queue submission, fence wait, fence reset) returns.
DriverOutcomes == {"Ok", "Err"}

\* The driver calls of submit, by the position that makes them.
DriverCall(pos) ==
  CASE pos = "idle" -> "Queue::submit"
    [] pos = "wait" -> "Fence::wait"
    [] pos = "reset" -> "Fence::reset"

\* The log entry of a driver call and of one that returned an error.
Driver(name, outcome) ==
  Call(IF outcome = "Ok" THEN name ELSE name \o " failed", 0)

\* submit taking `&self`: a caller may enter while another is inside.
Context_submit_borrow_Shared(pcs, c) == pcs[c] = "idle"

\* submit(&mut self, ..): the exclusive borrow of the Context; a caller
\* enters only while no caller is inside.
Context_submit_borrow(pcs, c) == \A d \in DOMAIN pcs : pcs[d] = "idle"

\* submit returning Ok right after the wait.
Context_submit_next_NoReset(pos, outcome) ==
  IF outcome = "Err" THEN [pc |-> "idle", returned |-> Some(Err("Driver", DriverCall(pos)))]
  ELSE CASE pos = "idle" -> [pc |-> "wait", returned |-> None]
         [] pos = "wait" -> [pc |-> "idle", returned |-> Some(Ok)]
         [] pos = "reset" -> [pc |-> "idle", returned |-> Some(Ok)]

\* The control flow of submit: queue submission, fence wait, fence reset,
\* each followed by `?` (an error returns at once), then Ok(()).
Context_submit_next(pos, outcome) ==
  IF outcome = "Err" THEN [pc |-> "idle", returned |-> Some(Err("Driver", DriverCall(pos)))]
  ELSE CASE pos = "idle" -> [pc |-> "wait", returned |-> None]
         [] pos = "wait" -> [pc |-> "reset", returned |-> None]
         [] pos = "reset" -> [pc |-> "idle", returned |-> Some(Ok)]

---------------------------------------------------------------------------
(* Version query *)

\* The minor number taken as `ver % (10000 / 100)`.
version_MinorPrecedence(ver) ==
  [ major |-> ver \div 10000,
    minor |-> ver % (10000 \div 100),
    patch |-> ver % 100 ]

\* version(), the native VkFFTGetVersion returning `ver`: u32 division and
\* remainder, `%` and `/` of equal precedence grouping to the left.
version(ver) ==
  [ major |-> ver \div 10000,
    minor |-> (ver % 10000) \div 100,
    patch |-> ver % 100 ]

---------------------------------------------------------------------------
(* Digit count *)

\* `a / b` of i64, b positive: the quotient rounded toward zero.
i64_div(a, b) == IF a >= 0 THEN a \div b ELSE -((-a) \div b)

RECURSIVE digits_while(_, _)
\* The loop of digits(): `while this / 10 != 0 { ret += 1; this /= 10; }`.
digits_while(this, ret) ==
  IF i64_div(this, 10) # 0 THEN digits_while(i64_div(this, 10), ret + 1) ELSE ret

RECURSIVE digits_FromZero(_)
\* The count started at 0 and one digit counted until nothing is left:
\* `while this != 0 { ret += 1; this /= 10; }`.
digits_FromZero(self) ==
  IF self # 0 THEN 1 + digits_FromZero(i64_div(self, 10)) ELSE 0

\* <i64 as Digits>::digits(&self): `ret` starts at 1.
digits(self) == digits_while(self, 1)

---------------------------------------------------------------------------
(* Inputs *)

\* Version integers around which the decoding changes digits, up to the
\* largest integer the model checker represents (2^31 - 1).
VersionBases == {0, 95, 9995, 10195, 1009995, 2147483647 - MaxVersionOffset}

VersionInputs == {b + d : b \in VersionBases, d \in 0..MaxVersionOffset}

\* The powers of ten below 2^31.
PowersOfTen == {10 ^ k : k \in 0..9}

\* Integers of both signs around zero, around every power of ten, and up to
\* the largest integer the model checker represents (2^31 - 1).
DigitsInputs ==
  LET near == {p + d : p \in PowersOfTen, d \in (-MaxDigitsOffset)..MaxDigitsOffset}
      top  == {2147483647 - d : d \in 0..MaxDigitsOffset}
  IN {0} \cup near \cup top \cup {-n : n \in near \cup top}

\* Every descriptor: of a concrete buffer or of a size.
AllDescs ==
  {BufferDesc_Buffer(b) : b \in Buffers} \cup {BufferDesc_BufferSize(n) : n \in 0..MaxBufferSize}

\* The descriptors a caller passes to a buffer setter.
DescInputs ==
  {BufferDesc_Buffer(1)} \cup {BufferDesc_BufferSize(n) : n \in 0..MaxBufferSize}

\* What a category of a configuration may hold: nothing, a concrete buffer, a size.
LaunchDescChoices == {None, Some(BufferDesc_Buffer(1)), Some(BufferDesc_BufferSize(MaxBufferSize))}

\* The builder chain of examples/convolution.rs: the five objects of the
\* Device Context set on a new builder.
ContextBuilder ==
  ConfigBuilder_command_pool(
    ConfigBuilder_queue(
      ConfigBuilder_fence(
        ConfigBuilder_device(
          ConfigBuilder_physical_device(ConfigBuilder_new, "physical"),
          "device"),
        "fence"),
      "queue"),
    "pool")

\* self after the setter of the named field was called with the value of opt,
\* if there is one.
Apply(setter, self, opt) ==
  IF opt = None THEN self
  ELSE CASE setter = "buffer"           -> ConfigBuilder_buffer(self, unwrap(opt))
         [] setter = "temp_buffer"      -> ConfigBuilder_temp_buffer(self, unwrap(opt))
         [] setter = "input_buffer"     -> ConfigBuilder_input_buffer(self, unwrap(opt))
         [] setter = "output_buffer"    -> ConfigBuilder_output_buffer(self, unwrap(opt))
         [] setter = "kernel"           -> ConfigBuilder_kernel(self, unwrap(opt))
         [] setter = "input_formatted"  -> ConfigBuilder_input_formatted(self, unwrap(opt))
         [] setter = "output_formatted" -> ConfigBuilder_output_formatted(self, unwrap(opt))

\* The setters without argument that raise a flag of the builder.
FlagSetters ==
  { "normalize", "kernel_convolution", "symmetric_kernel", "convolution",
    "r2c", "use_lut", "disable_reorder_four_step" }

\* self after every flag setter of `flags` was called.
ApplyFlags(self, flags) ==
  LET a == IF "normalize" \in flags THEN ConfigBuilder_normalize(self) ELSE self
      b == IF "kernel_convolution" \in flags THEN ConfigBuilder_kernel_convolution(a) ELSE a
      c == IF "symmetric_kernel" \in flags THEN ConfigBuilder_symmetric_kernel(b) ELSE b
      d == IF "convolution" \in flags THEN ConfigBuilder_convolution(c) ELSE c
      e == IF "r2c" \in flags THEN ConfigBuilder_r2c(d) ELSE d
      f == IF "use_lut" \in flags THEN ConfigBuilder_use_lut(e) ELSE e
  IN IF "disable_reorder_four_step" \in flags
       THEN ConfigBuilder_disable_reorder_four_step(f) ELSE f

\* self after the setter of the named numeric or array field was called with
\* the value of opt, if there is one.
ApplyValue(setter, self, opt) ==
  IF opt = None THEN self
  ELSE CASE setter = "dim"                 -> ConfigBuilder_dim(self, unwrap(opt)).self
         [] setter = "batch_count"         -> ConfigBuilder_batch_count(self, unwrap(opt))
         [] setter = "coordinate_features" -> ConfigBuilder_coordinate_features(self, unwrap(opt))
         [] setter = "zero_padding" ->
              ConfigBuilder_zeropad_right(
                ConfigBuilder_zeropad_left(
                  ConfigBuilder_zero_padding(self, unwrap(opt).flags).self,
                  unwrap(opt).left).self,
                unwrap(opt).right).self

\* The setters that were called on a builder whose fields differ from new's.
CalledOf(b) == {f \in DOMAIN b : b[f] # ConfigBuilder_new[f]}

\* Launch Parameters without overrides, and overriding the primary buffer.
NoOverrides == LaunchParams_of(None, None, None, None, None)

OverrideChoices == {None, Some(2)}

AllLaunchParams ==
  { LaunchParams_of(b, t, i, o, k) :
      b \in OverrideChoices, t \in OverrideChoices, i \in OverrideChoices,
      o \in OverrideChoices, k \in OverrideChoices }

\* What a category of a configuration may hold: nothing or any descriptor.
DescChoices == {None} \cup {Some(d) : d \in AllDescs}

\* The arrays a caller passes to dim: up to MaxDimLen extents.
DimInputs ==
  UNION {[1..n -> 1..MaxExtent] : n \in 0..MaxDimLen}

\* The callers (threads, or call sites of one thread) of one Device Context.
Callers == 1..NumCallers

\* A native stub reporting success, a named failure or an unnamed code.
StubStatuses == {VKFFT_SUCCESS, "VKFFT_ERROR_UNSUPPORTED_FFT_LENGTH", UnrecognizedPool[1]}

---------------------------------------------------------------------------
(* Actions *)

\* A chained setter call on the builder, which build() has not consumed yet.
Setter(name, next) ==
  /\ buildResult = None
  /\ builder' = next
  /\ called' = called \cup {name}
  /\ UNCHANGED <<buildResult, config, app, guard, calls, newResult, launched, memory>>
  /\ UNCHANGED <<pureVars, ctxVars>>

\* builder.dim(&d): a panic ends the program, so that nothing is built.
Set_dim ==
  \E d \in DimInputs :
    LET r == ConfigBuilder_dim(builder, d)
    IN IF r.panic
         THEN /\ buildResult = None
              /\ buildResult' = Some(Err("Panic", "assertion failed: len <= 3"))
              /\ UNCHANGED <<builder, called, config, app, guard, calls, newResult, launched, memory>>
              /\ UNCHANGED <<pureVars, ctxVars>>
         ELSE Setter("dim", r.self)

Set_physical_device == Setter("physical_device", ConfigBuilder_physical_device(builder, "physical"))

Set_device == Setter("device", ConfigBuilder_device(builder, "device"))

Set_queue == Setter("queue", ConfigBuilder_queue(builder, "queue"))

Set_fence == Setter("fence", ConfigBuilder_fence(builder, "fence"))

Set_command_pool == Setter("command_pool", ConfigBuilder_command_pool(builder, "pool"))

Set_buffer == \E d \in DescInputs : Setter("buffer", ConfigBuilder_buffer(builder, d))

Set_kernel == \E d \in DescInputs : Setter("kernel", ConfigBuilder_kernel(builder, d))

Set_normalize == Setter("normalize", ConfigBuilder_normalize(builder))

Set_input_formatted ==
  \E f \in BOOLEAN : Setter("input_formatted", ConfigBuilder_input_formatted(builder, f))

\* builder.build(): the builder is consumed.
Build ==
  /\ buildResult = None
  /\ LET r == ConfigBuilder_build(builder)
     IN /\ buildResult' = Some(r.result)
        /\ config' = r.config
  /\ UNCHANGED <<builder, called, app, guard, calls, newResult, launched, memory>>
  /\ UNCHANGED <<pureVars, ctxVars>>

\* An assignment to the pub field `precision` of a Config the caller owns.
SetPrecision ==
  /\ is_some(config)
  /\ newResult = None
  /\ \E p \in Precisions : config' = Some([unwrap(config) EXCEPT !.precision = p])
  /\ UNCHANGED <<builder, called, buildResult, app, guard, calls, newResult, launched, memory>>
  /\ UNCHANGED <<pureVars, ctxVars>>

\* App::new(config), the native initialization reporting one of `statuses`.
\* `config` keeps the consumed Config, as the plan's Job Configuration.
AppNew(statuses) ==
  /\ is_some(config)
  /\ newResult = None
  /\ \E s \in statuses :
       LET r == App_new(unwrap(config), s)
       IN /\ newResult' = Some([result |-> r.result, status |-> r.status])
          /\ app' = r.app
          /\ guard' = r.guard
          /\ calls' = calls \o r.calls
          /\ memory' = IF is_some(r.guard)
                          THEN [memory EXCEPT
                                  !.block = Some(16),
                                  !.pointers = Some(ConfigGuard_pointers(unwrap(r.guard), 16))]
                          ELSE memory
  /\ UNCHANGED <<builder, called, buildResult, config, launched>>
  /\ UNCHANGED <<pureVars, ctxVars>>

Appends(log) == Cardinality({n \in 1..Len(log) : log[n].call = "VkFFTAppend"})

\* What a forward/inverse call leaves behind.
Launched(params, inverse, r) ==
  /\ launched' = Some([ params |-> params, inverse |-> inverse, status |-> r.status,
                        result |-> r.result, appended |-> r.calls # <<>> ])
  /\ calls' = calls \o r.calls
  /\ UNCHANGED <<builder, called, buildResult, config, app, guard, newResult, memory>>
  /\ UNCHANGED <<pureVars, ctxVars>>

\* app.forward(&mut params)
Forward(paramsSet, statuses) ==
  /\ app = "Ready"
  /\ Appends(calls) < MaxAppends
  /\ \E params \in paramsSet, s \in statuses :
       Launched(params, FALSE, App_forward(unwrap(guard), params, s))

\* app.inverse(&mut params)
Inverse(paramsSet, statuses) ==
  /\ app = "Ready"
  /\ Appends(calls) < MaxAppends
  /\ \E params \in paramsSet, s \in statuses :
       Launched(params, TRUE, App_inverse(unwrap(guard), params, s))

\* version()
GetVersion ==
  /\ versionResult = None
  /\ versionResult' = Some(version(nativeVersion))
  /\ UNCHANGED <<nativeVersion, descriptor, described, digitsArg, digitsResult>>
  /\ UNCHANGED <<builder, called, buildResult, config, app, guard, calls, newResult, launched, memory>>
  /\ UNCHANGED ctxVars

\* descriptor.size(), descriptor.as_buffer(), descriptor.as_buffer_size()
Describe ==
  /\ described = None
  /\ described' = Some([ size |-> BufferDesc_size(descriptor),
                         as_buffer |-> BufferDesc_as_buffer(descriptor),
                         as_buffer_size |-> BufferDesc_as_buffer_size(descriptor) ])
  /\ UNCHANGED <<nativeVersion, versionResult, descriptor, digitsArg, digitsResult>>
  /\ UNCHANGED <<builder, called, buildResult, config, app, guard, calls, newResult, launched, memory>>
  /\ UNCHANGED ctxVars

\* A caller asks for the digit count of the integer it holds.
Digits ==
  /\ digitsResult = None
  /\ digitsResult' = Some(digits(digitsArg))
  /\ UNCHANGED <<nativeVersion, versionResult, descriptor, described, digitsArg>>
  /\ UNCHANGED <<builder, called, buildResult, config, app, guard, calls, newResult, launched, memory>>
  /\ UNCHANGED ctxVars

\* How many queue submissions were attempted.
Submits(log) ==
  Cardinality({n \in 1..Len(log) : log[n].call \in {"Queue::submit", "Queue::submit failed"}})

\* A step of caller c in submit, from position pos with the driver call of
\* that position returning `outcome`.
SubmitStep(c, pos, outcome) ==
  LET n == Context_submit_next(pos, outcome)
  IN /\ pc[c] = pos
     /\ pc' = [pc EXCEPT ![c] = n.pc]
     /\ returned' = [returned EXCEPT ![c] = n.returned]
     /\ calls' = Append(calls, Driver(DriverCall(pos), outcome))

\* context.submit(command_buffer): the command buffer is added, the fence
\* set as signal and the submission handed to the queue.
QueueSubmit(callers, outcomes) ==
  \E c \in callers, o \in outcomes :
    /\ Context_submit_borrow(pc, c)
    /\ Submits(calls) < MaxSubmits
    /\ SubmitStep(c, "idle", o)
    /\ inflight' = IF o = "Ok" THEN inflight + 1 ELSE inflight
    /\ UNCHANGED fence
    /\ UNCHANGED <<builder, called, buildResult, config, app, guard, newResult, launched, memory>>
    /\ UNCHANGED pureVars

\* self.fence.wait(None): returns Ok once the fence is signaled, however long
\* that takes, or an error of the driver.
FenceWait(callers, outcomes) ==
  \E c \in callers, o \in outcomes :
    /\ o = "Ok" => fence = "signaled"
    /\ SubmitStep(c, "wait", o)
    /\ UNCHANGED <<fence, inflight>>
    /\ UNCHANGED <<builder, called, buildResult, config, app, guard, newResult, launched, memory>>
    /\ UNCHANGED pureVars

\* self.fence.reset(): the fence is unsignaled again, unless the driver fails.
FenceReset(callers, outcomes) ==
  \E c \in callers, o \in outcomes :
    /\ SubmitStep(c, "reset", o)
    /\ fence' = IF o = "Ok" THEN "unsignaled" ELSE fence
    /\ UNCHANGED inflight
    /\ UNCHANGED <<builder, called, buildResult, config, app, guard, newResult, launched, memory>>
    /\ UNCHANGED pureVars

\* The device completes a submission and signals the fence it was given.
DeviceCompletes ==
  /\ inflight > 0
  /\ inflight' = inflight - 1
  /\ fence' = "signaled"
  /\ UNCHANGED <<pc, returned>>
  /\ UNCHANGED <<builder, called, buildResult, config, app, guard, calls, newResult, launched, memory>>
  /\ UNCHANGED pureVars

\* The Pin<Box<App>> that App::new returned is moved: returned by a function,
\* stored in a structure, passed by value.
MoveApp ==
  /\ app = "Ready"
  /\ \E to \in {1, 2, 3} \ {memory.handle} :
       memory' = [memory EXCEPT !.handle = to,
                                !.block = Some(Box_moved(unwrap(memory.block), to))]
  /\ UNCHANGED <<builder, called, buildResult, config, app, guard, calls, newResult, launched>>
  /\ UNCHANGED <<pureVars, ctxVars>>

\* The plan goes out of scope.
DropApp ==
  /\ app = "Ready"
  /\ app' = "Destroyed"
  /\ guard' = None
  /\ calls' = calls \o App_drop
  /\ memory' = [memory EXCEPT !.block = None, !.pointers = None]
  /\ UNCHANGED <<builder, called, buildResult, config, newResult, launched>>
  /\ UNCHANGED <<pureVars, ctxVars>>

---------------------------------------------------------------------------
(* Specifications *)

\* No version query and no descriptor query was made.
PureIdle ==
  /\ nativeVersion = 0
  /\ versionResult = None
  /\ descriptor = BufferDesc_BufferSize(0)
  /\ described = None
  /\ digitsArg = 0
  /\ digitsResult = None

\* The Device Context after Context::new: the fence was allocated unsignaled,
\* nothing was submitted, no caller is inside submit.
ContextIdle ==
  /\ fence = "unsignaled"
  /\ inflight = 0
  /\ pc = [c \in Callers |-> "idle"]
  /\ returned = [c \in Callers |-> None]

\* The state before build() of a program whose builder is b.
PlanInit(b) ==
  /\ builder = b
  /\ called = CalledOf(b)
  /\ buildResult = None
  /\ config = None
  /\ app = "Uninitialized"
  /\ guard = None
  /\ calls = <<>>
  /\ newResult = None
  /\ launched = None
  /\ memory = [handle |-> 1, block |-> None, pointers |-> None]

InitWith(b) ==
  /\ PlanInit(b)
  /\ PureIdle
  /\ ContextIdle

\* The pure queries: the version the linked engine reports and the
\* descriptor a caller holds are any of the inputs; each query is made once.
InitPure ==
  /\ PlanInit(ConfigBuilder_new)
  /\ ContextIdle
  /\ nativeVersion \in VersionInputs
  /\ versionResult = None
  /\ descriptor \in AllDescs
  /\ described = None
  /\ digitsArg = 0
  /\ digitsResult = None

NextPure ==
  \/ GetVersion
  \/ Describe

SpecPure == InitPure /\ [][NextPure]_vars

\* The digit count of one integer.
InitDigits ==
  /\ PlanInit(ConfigBuilder_new)
  /\ ContextIdle
  /\ nativeVersion = 0
  /\ versionResult = None
  /\ descriptor = BufferDesc_BufferSize(0)
  /\ described = None
  /\ digitsArg \in DigitsInputs
  /\ digitsResult = None

NextDigits == Digits

SpecDigits == InitDigits /\ [][NextDigits]_vars

\* The builder: any chain of setters on a new builder, then build().
InitBuild == InitWith(ConfigBuilder_new)

NextBuild ==
  \/ Set_physical_device
  \/ Set_device
  \/ Set_queue
  \/ Set_fence
  \/ Set_command_pool
  \/ Set_buffer
  \/ Set_kernel
  \/ Set_normalize
  \/ Set_input_formatted
  \/ Build

SpecBuild == InitBuild /\ [][NextBuild]_vars

\* The dimension setter: any chain of dim and normalize calls on the builder
\* of examples/convolution.rs, then build().
InitDim == InitWith(ContextBuilder)

NextDim ==
  \/ Set_dim
  \/ Set_normalize
  \/ Build

SpecDim == InitDim /\ [][NextDim]_vars

\* Marshaling: each of the five categories of the configuration holds no
\* descriptor or any descriptor; the plan is created and dropped.
InitMarshal ==
  \E b \in DescChoices, t \in DescChoices, i \in DescChoices,
     o \in DescChoices, k \in DescChoices :
    InitWith(Apply("kernel",
               Apply("output_buffer",
                 Apply("input_buffer",
                   Apply("temp_buffer",
                     Apply("buffer", ContextBuilder, b), t), i), o), k))

NextMarshal ==
  \/ Build
  \/ AppNew(StubStatuses)
  \/ MoveApp
  \/ DropApp

SpecMarshal == InitMarshal /\ [][NextMarshal]_vars

\* The flags and numbers of the configuration: any set of flag setters, and
\* dim, batch_count, coordinate_features and the zero-padding setters called
\* or not; the plan is created and dropped.
InitFlags ==
  \E flags \in SUBSET FlagSetters,
     d \in {None, Some(<<2>>), Some(<<2, 1, 2>>)},
     n \in {None, Some(0), Some(2)},
     c \in {None, Some(2)},
     z \in {None,
            Some([flags |-> <<TRUE>>, left |-> <<1>>, right |-> <<2>>]),
            Some([flags |-> <<FALSE, TRUE, TRUE>>, left |-> <<0, 1>>, right |-> <<0, 2, 1>>])} :
    InitWith(ApplyValue("zero_padding",
               ApplyValue("coordinate_features",
                 ApplyValue("batch_count",
                   ApplyValue("dim", ApplyFlags(ContextBuilder, flags), d), n), c), z))

NextFlags ==
  \/ Build
  \/ AppNew({VKFFT_SUCCESS})
  \/ DropApp

SpecFlags == InitFlags /\ [][NextFlags]_vars

\* The Device Context under its callers, the driver calls succeeding or
\* failing.
InitSubmit == InitWith(ContextBuilder)

NextSubmit ==
  \/ QueueSubmit(Callers, DriverOutcomes)
  \/ FenceWait(Callers, DriverOutcomes)
  \/ FenceReset(Callers, DriverOutcomes)
  \/ DeviceCompletes

SpecSubmit == InitSubmit /\ [][NextSubmit]_vars

\* Recording and submission, as in examples/convolution.rs: the plan records
\* into the command buffer and one caller submits, the driver succeeding.
InitRecord == InitWith(Apply("buffer", ContextBuilder, Some(BufferDesc_Buffer(1))))

NextRecord ==
  \/ Build
  \/ AppNew({VKFFT_SUCCESS})
  \/ Forward({NoOverrides}, {VKFFT_SUCCESS})
  \/ Inverse({NoOverrides}, {VKFFT_SUCCESS})
  \/ DropApp
  \/ QueueSubmit({1}, {"Ok"})
  \/ FenceWait({1}, {"Ok"})
  \/ FenceReset({1}, {"Ok"})
  \/ DeviceCompletes

SpecRecord == InitRecord /\ [][NextRecord]_vars

\* The life of a plan: a configuration with or without a primary buffer is
\* built, the plan is created, executed and dropped, the native stub
\* reporting any status code to the initialization and to forward.
Init == \E d \in LaunchDescChoices : InitWith(Apply("buffer", ContextBuilder, d))

Next ==
  \/ Build
  \/ AppNew(AllStatuses)
  \/ Forward({NoOverrides, LaunchParams_of(Some(2), None, None, None, None)}, AllStatuses)
  \/ Inverse({NoOverrides}, StubStatuses)
  \/ DropApp

Spec == Init /\ [][Next]_vars

\* Precision and the formatted flags: the configuration varies in them only.
InitHalf ==
  \E i \in {None, Some(TRUE), Some(FALSE)}, o \in {None, Some(TRUE), Some(FALSE)} :
    InitWith(Apply("output_formatted",
                   Apply("input_formatted", ContextBuilder, i), o))

NextHalf ==
  \/ Build
  \/ SetPrecision
  \/ AppNew(StubStatuses)
  \/ Forward({NoOverrides}, StubStatuses)
  \/ Inverse({NoOverrides}, StubStatuses)
  \/ DropApp

SpecHalf == InitHalf /\ [][NextHalf]_vars

\* Recovery from a LaunchError: the configuration holds a concrete buffer or
\* nothing in each of the four categories launch checks, the Launch Parameters
\* override any of the four, and the plan is executed up to MaxAppends times.
InitRecover ==
  \E b \in {None, Some(BufferDesc_Buffer(1))}, t \in {None, Some(BufferDesc_Buffer(1))},
     i \in {None, Some(BufferDesc_Buffer(1))}, o \in {None, Some(BufferDesc_Buffer(1))} :
    InitWith(Apply("output_buffer",
               Apply("input_buffer",
                 Apply("temp_buffer",
                   Apply("buffer", ContextBuilder, b), t), i), o))

NextRecover ==
  \/ Build
  \/ AppNew({VKFFT_SUCCESS})
  \/ Forward({p \in AllLaunchParams : p.kernel = None}, {VKFFT_SUCCESS})
  \/ Inverse({p \in AllLaunchParams : p.kernel = None}, {VKFFT_SUCCESS})
  \/ DropApp

SpecRecover == InitRecover /\ [][NextRecover]_vars

\* Mutual exclusivity: the configuration varies in its five descriptors and
\* the Launch Parameters in their five overrides.
InitLaunch ==
  \E b \in LaunchDescChoices, t \in LaunchDescChoices, i \in LaunchDescChoices,
     o \in LaunchDescChoices, k \in LaunchDescChoices :
    InitWith(Apply("kernel",
               Apply("output_buffer",
                 Apply("input_buffer",
                   Apply("temp_buffer",
                     Apply("buffer", ContextBuilder, b), t), i), o), k))

NextLaunch ==
  \/ Build
  \/ AppNew({VKFFT_SUCCESS})
  \/ Forward(AllLaunchParams, {VKFFT_SUCCESS})
  \/ Inverse(AllLaunchParams, {VKFFT_SUCCESS})
  \/ DropApp

SpecLaunch == InitLaunch /\ [][NextLaunch]_vars

---------------------------------------------------------------------------
(* What the claims speak of *)

\* The plan's Job Configuration, and the last forward/inverse call.
Cfg == unwrap(config)

Last == unwrap(launched)

\* The four buffer categories launch checks, in the order it checks them, and
\* the LaunchError of each.
CheckedCategories == <<"buffer", "temp_buffer", "input_buffer", "output_buffer">>

CategoryError ==
  <<"ConfigSpecifiesBuffer", "ConfigSpecifiesTempBuffer",
    "ConfigSpecifiesInputBuffer", "ConfigSpecifiesOutputBuffer">>

\* The configuration holds a concrete buffer, a size-only descriptor, any
\* descriptor for category c; the Launch Parameters supply a buffer for it.
Concrete(c) == is_some(Cfg[c]) /\ unwrap(Cfg[c]).tag = "Buffer"

SizeOnly(c) == is_some(Cfg[c]) /\ unwrap(Cfg[c]).tag = "BufferSize"

Supplied(c) == is_some(Last.params[c])

\* The categories, by their place in the check order, that are concrete in
\* the configuration and supplied again at launch.
ConcreteConflicts == {n \in 1..4 : Concrete(CheckedCategories[n]) /\ Supplied(CheckedCategories[n])}

Least(S) == CHOOSE n \in S : \A m \in S : n <= m

Count(name) == Cardinality({n \in 1..Len(calls) : calls[n].call = name})

NativeCalls == {"initializeVkFFT", "VkFFTAppend", "deleteVkFFT"}

---------------------------------------------------------------------------
(* C1 *)

\* C1, as stated: for each of buffer, temp buffer, input buffer and output
\* buffer, a forward/inverse call whose plan configuration holds a concrete
\* buffer for the category and whose Launch Parameters supply one too returns
\* the LaunchError of that category.
C1_EachConflictMatching ==
  is_some(launched) =>
    \A n \in 1..4 :
      (Concrete(CheckedCategories[n]) /\ Supplied(CheckedCategories[n]))
        => Last.result = Err("Launch", CategoryError[n])

\* C1, amended: when at least one of the four categories is concrete in the
\* configuration and supplied at launch, the call returns the LaunchError of the
\* first such category in the order buffer, temp, input, output, and the
\* native append is not called.
C1_FirstConflictMatching ==
  (is_some(launched) /\ ConcreteConflicts # {}) =>
    /\ Last.result = Err("Launch", CategoryError[Least(ConcreteConflicts)])
    /\ ~Last.appended

\* At least two categories conflict at once, the output buffer among them and
\* the primary buffer not; a LaunchError was returned.
C1_Witness ==
  /\ is_some(launched)
  /\ Cardinality(ConcreteConflicts) >= 2
  /\ 1 \notin ConcreteConflicts
  /\ 4 \in ConcreteConflicts
  /\ Last.result.kind = "Launch"

(* C2 *)

\* C2: a forward/inverse call whose plan configuration holds a kernel buffer
\* and whose Launch Parameters supply a kernel fails with
\* LaunchError::ConfigSpecifiesKernel without reaching the native append.
C2_KernelConflictRejected ==
  (is_some(launched) /\ Concrete("kernel") /\ Supplied("kernel")) =>
    /\ ~Last.result.ok
    /\ Last.result.kind = "Launch"
    /\ (ConcreteConflicts = {} => Last.result.variant = "ConfigSpecifiesKernel")
    /\ ~Last.appended

(* C3 *)

\* C3, as stated: a size-only descriptor counts as specifying its category, so
\* a call that supplies a buffer for a category the configuration describes
\* (by a buffer or by a size) returns a LaunchError, that of the first such
\* category when there is no other.
C3_SizeOnlyRejected ==
  is_some(launched) =>
    \A n \in 1..4 :
      (SizeOnly(CheckedCategories[n]) /\ Supplied(CheckedCategories[n])) =>
        /\ Last.result.kind = "Launch"
        /\ ( (\A m \in 1..4 : m # n =>
                ~(is_some(Cfg[CheckedCategories[m]]) /\ Supplied(CheckedCategories[m])))
             => Last.result = Err("Launch", CategoryError[n]) )

\* C3, amended: only a concrete buffer counts.  A call that supplies a buffer
\* for a category the configuration describes by size only never returns the
\* LaunchError of that category, and it reaches the native append unless some
\* category is concrete in the configuration and supplied too.
C3_SizeOnlyAccepted ==
  is_some(launched) =>
    /\ \A n \in 1..4 :
         (SizeOnly(CheckedCategories[n]) /\ Supplied(CheckedCategories[n]))
           => Last.result # Err("Launch", CategoryError[n])
    /\ (ConcreteConflicts = {} => (Last.appended /\ Last.result.kind # "Launch"))

\* Every checked category is size-only in the configuration and supplied at
\* launch, and the native append was called.
C3_Witness ==
  /\ is_some(launched)
  /\ \A n \in 1..4 : SizeOnly(CheckedCategories[n]) /\ Supplied(CheckedCategories[n])
  /\ Last.appended
  /\ Last.result.ok

(* C4 *)

\* The native calls whose status was checked: the initialization of App::new
\* and the append of the last forward/inverse, each with what the caller got.
CheckedCalls ==
  {[status |-> unwrap(newResult).status, result |-> unwrap(newResult).result] :
     x \in {y \in newResult : y.status # "none"}}
  \cup
  {[status |-> Last.status, result |-> Last.result] :
     x \in {y \in launched : y.appended}}

\* C4: a native status that is neither the success code nor a named failure
\* code is reported to the caller as an error, by plan initialization and by
\* forward/inverse alike.
C4_UnrecognizedIsError ==
  \A c \in CheckedCalls : c.status \in UnrecognizedCodes => ~c.result.ok

(* C5 *)

\* C5: the success code yields Ok(()); a named failure code reported by the
\* native initialization or the native append reaches the caller as Err of the
\* variant the mapping gives that code, and no other named code is mapped to
\* the same variant.
C5_StatusMappingOneToOne ==
  \A c \in CheckedCalls :
    /\ c.status = VKFFT_SUCCESS => c.result = Ok
    /\ c.status \in NamedCodes =>
         /\ ~c.result.ok
         /\ c.result.kind = "Native"
         /\ Error_try_from(c.status) = Some(c.result.variant)
         /\ \A other \in NamedCodes \ {c.status} :
              Error_try_from(other) # Some(c.result.variant)

\* Initialization reported success and an append then reported
\* FAILED_TO_ALLOCATE: the caller got Ok and then that error.
C5_Witness ==
  /\ is_some(launched)
  /\ Last.appended
  /\ Last.status = "VKFFT_ERROR_FAILED_TO_ALLOCATE"
  /\ Last.result = Err("Native", "FailedToAllocate")
  /\ unwrap(newResult).status = VKFFT_SUCCESS
  /\ unwrap(newResult).result = Ok

(* C6 *)

\* C6: the native teardown runs exactly once for a plan whose construction
\* reached the native initialization: not while the plan is alive, once when
\* it is dropped, once when initialization reported a failure (which App::new
\* returns); it never runs twice, and never without an initialization.
C6_TeardownExactlyOnce ==
  /\ Count("initializeVkFFT") <= 1
  /\ Count("deleteVkFFT") <= Count("initializeVkFFT")
  /\ app = "Uninitialized" => Count("initializeVkFFT") = 0
  /\ app = "Ready" => (Count("initializeVkFFT") = 1 /\ Count("deleteVkFFT") = 0)
  /\ app = "Destroyed" => (Count("initializeVkFFT") = 1 /\ Count("deleteVkFFT") = 1)
  /\ (is_some(newResult) /\ unwrap(newResult).result.kind = "Native")
       => (Count("initializeVkFFT") = 1 /\ Count("deleteVkFFT") = 1)
  /\ (is_some(newResult) /\ unwrap(newResult).result.kind = "Config")
       => (Count("initializeVkFFT") = 0 /\ Count("deleteVkFFT") = 0)

\* Initialization failed and App::new returned the error: teardown has run.
C6_Witness ==
  /\ is_some(newResult)
  /\ unwrap(newResult).result = Err("Native", "UnsupportedFftLength")
  /\ Count("initializeVkFFT") = 1
  /\ Count("deleteVkFFT") = 1

(* C7 *)

\* `calls` is: initialization, any number of appends, and then, if at all,
\* teardown followed by the release of the guard.
LifecycleOrder ==
  \/ calls = <<>>
  \/ /\ calls[1].call = "initializeVkFFT"
     /\ \E k \in 1..Len(calls) :
          /\ \A n \in 2..k : calls[n].call = "VkFFTAppend"
          /\ \/ k = Len(calls)
             \/ SubSeq(calls, k + 1, Len(calls)) =
                  <<Call("deleteVkFFT", 0), Call("drop ConfigGuard", 0)>>

\* C7: the guard, with its strong references to the device, the queue, the
\* command pool and every concrete buffer of the configuration, is released
\* only after the native teardown: the order is initialization, appends,
\* teardown, release; while the guard is held neither has happened, and no
\* native call follows the release.
C7_GuardOutlivesTeardown ==
  /\ LifecycleOrder
  /\ \A n \in 1..Len(calls) : \A m \in 1..Len(calls) :
       (calls[n].call = "drop ConfigGuard" /\ n < m) => calls[m].call \notin NativeCalls
  /\ is_some(guard) =>
       /\ Count("deleteVkFFT") = 0
       /\ Count("drop ConfigGuard") = 0
       /\ unwrap(guard).keep_alive.device = Cfg.device
       /\ unwrap(guard).keep_alive.queue = Cfg.queue
       /\ unwrap(guard).keep_alive.command_pool = Cfg.command_pool
       /\ \A c \in {"buffer", "temp_buffer", "input_buffer", "output_buffer", "kernel"} :
            Concrete(c) => unwrap(guard).keep_alive[c] = Some(unwrap(Cfg[c]).v)
  /\ app = "Ready" => is_some(guard)
  /\ Count("initializeVkFFT") > Count("drop ConfigGuard") => is_some(guard)

\* A plan with a concrete buffer was executed and dropped: the log ends with
\* the teardown and then the release.
C7_Witness ==
  /\ app = "Destroyed"
  /\ is_some(config) /\ Concrete("buffer")
  /\ Count("VkFFTAppend") >= 1
  /\ Len(calls) >= 4
  /\ calls[Len(calls) - 1].call = "deleteVkFFT"
  /\ calls[Len(calls)].call = "drop ConfigGuard"

(* C8 *)

\* The mandatory fields in the order build() is said to check them, with the
\* BuildError of each: the four the specification names, and the five of the
\* source, the physical device first.
FourMandatory == <<"device", "queue", "fence", "command_pool">>

FourErrors == <<"NoDevice", "NoQueue", "NoFence", "NoCommandPool">>

FiveMandatory == <<"physical_device", "device", "queue", "fence", "command_pool">>

FiveErrors == <<"NoPhysicalDevice", "NoDevice", "NoQueue", "NoFence", "NoCommandPool">>

Missing(fields) == {n \in 1..Len(fields) : builder[fields[n]] = None}

\* C8, as stated: whenever one of device, queue, fence, command pool was not
\* set, build() returns no Config and the BuildError of the first missing one
\* in the order NoDevice, NoQueue, NoFence, NoCommandPool, whatever other
\* setters were called.
C8_FirstMissingOfFour ==
  (is_some(buildResult) /\ Missing(FourMandatory) # {}) =>
    /\ unwrap(buildResult) = Err("Build", FourErrors[Least(Missing(FourMandatory))])
    /\ config = None

\* C8, amended: whenever one of physical device, device, queue, fence, command
\* pool was not set, build() returns no Config and the BuildError of the first
\* missing one in the order NoPhysicalDevice, NoDevice, NoQueue, NoFence,
\* NoCommandPool, whatever other setters were called.
C8_FirstMissingOfFive ==
  (is_some(buildResult) /\ Missing(FiveMandatory) # {}) =>
    /\ unwrap(buildResult) = Err("Build", FiveErrors[Least(Missing(FiveMandatory))])
    /\ config = None

\* build() was called with the device and the fence missing, after optional
\* setters: NoDevice and no Config.
C8_Witness ==
  /\ is_some(buildResult)
  /\ Missing(FiveMandatory) = {2, 4}
  /\ {"buffer", "normalize", "input_formatted"} \subseteq called
  /\ unwrap(buildResult) = Err("Build", "NoDevice")
  /\ config = None

(* C9 *)

\* The optional fields, each named as its setter.
OptionalFields ==
  {"buffer", "temp_buffer", "input_buffer", "output_buffer", "kernel", "normalize",
   "kernel_convolution", "symmetric_kernel", "convolution", "r2c", "use_lut",
   "coordinate_features", "disable_reorder_four_step", "zero_padding",
   "zeropad_left", "zeropad_right", "batch_count", "input_formatted",
   "output_formatted"}

\* The Config that build() returned has the defaults wherever no setter was
\* called: a 1-D transform of length 1, single precision, no padding, no
\* convolution, no descriptor, no flag.
DefaultsWhereUnset ==
  /\ is_some(config)
  /\ "dim" \notin called => (Cfg.fft_dim = 1 /\ Cfg.size = <<1, 1, 1>>)
  /\ Cfg.precision = "Single"
  /\ "zero_padding" \notin called => Cfg.zero_padding = <<FALSE, FALSE, FALSE>>
  /\ "zeropad_left" \notin called => Cfg.zeropad_left = <<0, 0, 0>>
  /\ "zeropad_right" \notin called => Cfg.zeropad_right = <<0, 0, 0>>
  /\ "coordinate_features" \notin called => Cfg.coordinate_features = 1
  /\ \A f \in {"normalize", "kernel_convolution", "symmetric_kernel", "convolution",
               "r2c", "use_lut", "disable_reorder_four_step"} :
       f \notin called => Cfg[f] = FALSE
  /\ \A f \in {"buffer", "temp_buffer", "input_buffer", "output_buffer", "kernel",
               "batch_count", "input_formatted", "output_formatted"} :
       f \notin called => Cfg[f] = None

\* C9, as stated: device, queue, fence and command pool are the only mandatory
\* fields; whenever those four were set, build() returns Ok.
C9_FourSuffice ==
  (is_some(buildResult) /\ Missing(FourMandatory) = {}) => unwrap(buildResult).ok

\* C9, amended: physical device, device, queue, fence and command pool are the
\* only mandatory fields; whenever those five were set, build() returns Ok and
\* a Config in which every field that was not set has its default.
C9_FiveSuffice ==
  (is_some(buildResult) /\ Missing(FiveMandatory) = {}) =>
    /\ unwrap(buildResult) = Ok
    /\ DefaultsWhereUnset
    /\ \A n \in 1..5 : Some(Cfg[FiveMandatory[n]]) = builder[FiveMandatory[n]]

\* build() was called with the five set and no optional setter called.
C9_Witness ==
  /\ is_some(buildResult)
  /\ Missing(FiveMandatory) = {}
  /\ called \cap OptionalFields = {}
  /\ unwrap(buildResult).ok
  /\ is_some(config)

(* C10 *)

\* C10: with precision half-memory-only, App::new fails with
\* ConfigError::InvalidConfig, holds no guard and makes no native call if
\* input_formatted or output_formatted was set to false; otherwise marshaling
\* succeeds, the native initialization is called, and the structure has the
\* half-memory flag and both formatted flags equal to 1.
C10_HalfMemoryFormatted ==
  (is_some(newResult) /\ Cfg.precision = "HalfMemory") =>
    IF Cfg.input_formatted = Some(FALSE) \/ Cfg.output_formatted = Some(FALSE)
      THEN /\ unwrap(newResult).result = Err("Config", "InvalidConfig")
           /\ guard = None
           /\ Config_as_sys(Cfg).guard = None
           /\ \A n \in 1..Len(calls) : calls[n].call \notin NativeCalls
      ELSE /\ unwrap(newResult).result.kind # "Config"
           /\ Count("initializeVkFFT") = 1
           /\ Config_as_sys(Cfg).result = Ok
           /\ \A g \in Config_as_sys(Cfg).guard \cup guard :
                /\ g.config.halfPrecisionMemoryOnly = 1
                /\ g.config.isInputFormatted = 1
                /\ g.config.isOutputFormatted = 1
           /\ app = "Ready" => is_some(guard)

\* Half-memory-only with output_formatted set to false: InvalidConfig.
C10_Witness ==
  /\ is_some(newResult)
  /\ Cfg.precision = "HalfMemory"
  /\ Cfg.input_formatted = Some(TRUE)
  /\ Cfg.output_formatted = Some(FALSE)
  /\ unwrap(newResult).result = Err("Config", "InvalidConfig")
  /\ guard = None

---------------------------------------------------------------------------
(* C11 *)

\* The index in `calls` of the latest native append.
LastAppend == CHOOSE n \in 1..Len(calls) :
                /\ calls[n].call = "VkFFTAppend"
                /\ \A m \in (n + 1)..Len(calls) : calls[m].call # "VkFFTAppend"

\* C11: whenever the last forward/inverse call reached the native append, the
\* direction flag of that append is -1 if the call was forward and +1 if it
\* was inverse, whatever the plan's configuration and the Launch Parameters.
C11_DirectionFlag ==
  (launched # None /\ Last.appended) =>
    /\ Appends(calls) > 0
    /\ calls[LastAppend].dir = (IF Last.inverse THEN 1 ELSE -1)
    /\ \A n \in 1..Len(calls) : calls[n].call = "VkFFTAppend" => calls[n].dir \in {-1, 1}

\* A forward and then an inverse execution, the inverse with a kernel
\* override, both appended: the flags in the log are -1 then +1.
C11_Witness ==
  /\ launched # None
  /\ Last.appended
  /\ Last.inverse
  /\ is_some(Last.params.kernel)
  /\ Appends(calls) = 2
  /\ \E n \in 1..Len(calls) : calls[n] = Call("VkFFTAppend", -1)
  /\ calls[LastAppend] = Call("VkFFTAppend", 1)

---------------------------------------------------------------------------
(* C12 *)

\* C12: the dimension count of every Config that build() produced lies in
\* 1..3, and so does the count a builder holds after any chain of setters:
\* dim fails fast for every number of extents other than 1, 2 or 3.
C12_DimensionCount ==
  /\ builder.fft_dim \in 1..3
  /\ config # None => Cfg.fft_dim \in 1..3

---------------------------------------------------------------------------
(* C13 *)

\* C13: the Version decoded from the native integer v has minor < 100 and
\* patch < 100, and major*10000 + minor*100 + patch is v again.
C13_VersionDecoding ==
  versionResult # None =>
    LET r == unwrap(versionResult)
    IN /\ r.minor \in 0..99
       /\ r.patch \in 0..99
       /\ r.major >= 0
       /\ r.major * 10000 + r.minor * 100 + r.patch = nativeVersion

\* A version with all three numbers non-zero was decoded: 1.2.3 from 10203.
C13_Witness ==
  /\ nativeVersion = 10203
  /\ versionResult = Some([major |-> 1, minor |-> 2, patch |-> 3])

---------------------------------------------------------------------------
(* C14 *)

\* C14: a descriptor of a concrete buffer has the buffer's byte length as
\* size() and the buffer as as_buffer(); a size-only descriptor has the stored
\* value as size() and no as_buffer(); exactly one of as_buffer() and
\* as_buffer_size() is present.
C14_DescriptorAccessors ==
  described # None =>
    LET r == unwrap(described)
    IN /\ descriptor.tag = "Buffer" =>
            r.size = BufferByteLen(descriptor.v) /\ r.as_buffer = Some(descriptor.v)
       /\ descriptor.tag = "BufferSize" =>
            r.size = descriptor.v /\ r.as_buffer = None
       /\ is_some(r.as_buffer) # is_some(r.as_buffer_size)

\* The accessors were called on a descriptor of the concrete buffer 2, whose
\* byte length differs from its name.
C14_Witness ==
  /\ descriptor = BufferDesc_Buffer(2)
  /\ described # None
  /\ unwrap(described).size = 8
  /\ unwrap(described).as_buffer_size = None

---------------------------------------------------------------------------
(* C15, C16 *)

\* The driver calls of the log, in order.
DriverLog(log) ==
  SelectSeq(log, LAMBDA e : e.call \in {Driver(DriverCall(pos), o).call :
                                          pos \in {"idle", "wait", "reset"},
                                          o \in DriverOutcomes})

\* No caller is inside submit.
AllIdle == \A c \in Callers : pc[c] = "idle"

\* A wait on the fence or a reset of it returned an error.
FenceFailed ==
  \E n \in 1..Len(calls) : calls[n].call \in {"Fence::wait failed", "Fence::reset failed"}

\* The log is a run of whole submits: submission, wait, reset, each succeeding.
WholeSubmits(log) ==
  /\ Len(log) % 3 = 0
  /\ \A n \in 1..Len(log) :
       log[n].call = <<"Queue::submit", "Fence::wait", "Fence::reset">>[((n - 1) % 3) + 1]

\* Every driver call of the log follows the call that submit makes before it;
\* a submission follows a return of submit.
SubmitOrder(log) ==
  \A n \in 1..Len(log) :
    LET e == log[n].call
        prev == IF n = 1 THEN "" ELSE log[n - 1].call
    IN /\ e \in {"Queue::submit", "Queue::submit failed"} =>
            prev \in {"", "Queue::submit failed", "Fence::wait failed",
                      "Fence::reset", "Fence::reset failed"}
       /\ e \in {"Fence::wait", "Fence::wait failed"} => prev = "Queue::submit"
       /\ e \in {"Fence::reset", "Fence::reset failed"} => prev = "Fence::wait"

---------------------------------------------------------------------------
(* C17 *)

\* C17: a forward or inverse execution makes no driver call and leaves the
\* fence, the submissions in flight and the callers of submit as they were.
C17_ExecutionRecordsOnly ==
  [][ (Appends(calls') > Appends(calls) \/ launched' # launched) =>
        /\ fence' = fence
        /\ inflight' = inflight
        /\ pc' = pc
        /\ returned' = returned
        /\ DriverLog(calls') = DriverLog(calls) ]_vars

\* Two executions were recorded before the only submission, which returned Ok.
C17_Witness ==
  /\ Submits(calls) = 1
  /\ returned[1] = Some(Ok)
  /\ \E n \in 1..Len(calls) :
       /\ calls[n].call = "Queue::submit"
       /\ Appends(SubSeq(calls, 1, n - 1)) = 2

---------------------------------------------------------------------------
(* C18, C19, C20 *)

\* The five buffer categories of a configuration.
Categories == {"buffer", "temp_buffer", "input_buffer", "output_buffer", "kernel"}

\* The fields of VkFFTConfiguration and the slots of the guard block that
\* belong to a category: count, size pointer, buffer pointer; size slot.
NumField(c) ==
  CASE c = "buffer" -> "bufferNum" [] c = "temp_buffer" -> "tempBufferNum"
    [] c = "input_buffer" -> "inputBufferNum" [] c = "output_buffer" -> "outputBufferNum"
    [] c = "kernel" -> "kernelNum"

SizeField(c) ==
  CASE c = "buffer" -> "bufferSize" [] c = "temp_buffer" -> "tempBufferSize"
    [] c = "input_buffer" -> "inputBufferSize" [] c = "output_buffer" -> "outputBufferSize"
    [] c = "kernel" -> "kernelSize"

PtrField(c) ==
  CASE c = "buffer" -> "buffer" [] c = "temp_buffer" -> "tempBuffer"
    [] c = "input_buffer" -> "inputBuffer" [] c = "output_buffer" -> "outputBuffer"
    [] c = "kernel" -> "kernel"

SizeSlot(c) == IF c = "kernel" THEN "kernel_size" ELSE c \o "_size"

\* The guard of the plan.
Guard == unwrap(guard)

C19_SizeOnlyMarshaled ==
  guard # None =>
    \A c \in Categories :
      SizeOnly(c) =>
        /\ Guard.config[NumField(c)] = 1
        /\ Guard.config[SizeField(c)] = SizeSlot(c)
        /\ Guard[SizeSlot(c)] = unwrap(Cfg[c]).v
        /\ Guard.config[PtrField(c)] = "null"
        /\ Guard[c] = None
        /\ Guard.keep_alive[c] = None

\* C20: for every category without a descriptor, the count is 0, the size
\* pointer and the buffer pointer are null, the handle slot is empty and the
\* guard keeps no reference.
C20_AbsentLeftZero ==
  guard # None =>
    \A c \in Categories :
      Cfg[c] = None =>
        /\ Guard.config[NumField(c)] = 0
        /\ Guard.config[SizeField(c)] = "null"
        /\ Guard.config[PtrField(c)] = "null"
        /\ Guard[c] = None
        /\ Guard.keep_alive[c] = None

\* A plan of a configuration with a primary buffer and a kernel size and no
\* descriptor for the three other categories.
C20_Witness ==
  /\ guard # None
  /\ Concrete("buffer")
  /\ SizeOnly("kernel")
  /\ \A c \in {"temp_buffer", "input_buffer", "output_buffer"} : Cfg[c] = None
  /\ Guard.config.bufferNum = 1
  /\ Guard.config.kernelNum = 1

\* The absolute value of an integer above -2^31.
Abs(n) == IF n < 0 THEN -n ELSE n

\* C27: digits() ends and returns the number of decimal digits of the
\* magnitude of the integer, the sign not counted: 1 for zero and for every
\* magnitude below 10, and k for a magnitude from 10^(k-1) up to 10^k - 1.
C27_DigitsOfMagnitude ==
  is_some(digitsResult) =>
    LET k == unwrap(digitsResult)
        m == Abs(digitsArg)
    IN /\ k \in 1..10
       /\ (k = 1 \/ m >= 10 ^ (k - 1))
       /\ (k = 10 \/ m < 10 ^ k)

\* digits() returned for a negative integer of several digits.
C27_Witness ==
  /\ is_some(digitsResult)
  /\ digitsArg < 0
  /\ unwrap(digitsResult) > 1

\* A flag as the native structure stores it.
Bit(b) == IF b THEN 1 ELSE 0

\* The native structure of the guard of the plan.
Native == Guard.config

\* C21: the native structure of a plan holds, unchanged, the dimension count
\* and the three extents of its Job Configuration, normalize, real-to-complex,
\* the zero-padding flag and the left and right bound of every axis,
\* kernel-convolution, symmetric-kernel, disable-four-step-reorder, the
\* coordinate-feature count, and the batch count when there is one, 0 when
\* there is none.
C21_FieldsCopied ==
  is_some(guard) =>
    /\ Native.FFTdim = Cfg.fft_dim
    /\ Native.size = Cfg.size
    /\ Native.normalize = Bit(Cfg.normalize)
    /\ Native.performR2C = Bit(Cfg.r2c)
    /\ \A axis \in 1..3 :
         /\ Native.performZeropadding[axis] = Bit(Cfg.zero_padding[axis])
         /\ Native.fft_zeropad_left[axis] = Cfg.zeropad_left[axis]
         /\ Native.fft_zeropad_right[axis] = Cfg.zeropad_right[axis]
    /\ Native.kernelConvolution = Bit(Cfg.kernel_convolution)
    /\ Native.symmetricKernel = Bit(Cfg.symmetric_kernel)
    /\ Native.disableReorderFourStep = Bit(Cfg.disable_reorder_four_step)
    /\ Native.coordinateFeatures = Cfg.coordinate_features
    /\ Native.numberBatches = (IF is_some(Cfg.batch_count) THEN unwrap(Cfg.batch_count) ELSE 0)

\* A plan whose builder was given three extents, a batch count, zero padding
\* on two axes, and the symmetric-kernel flag but not kernel-convolution.
C21_Witness ==
  /\ is_some(guard)
  /\ {"fft_dim", "size", "batch_count", "zero_padding", "zeropad_left", "zeropad_right",
       "symmetric_kernel", "coordinate_features"} \subseteq called
  /\ "kernel_convolution" \notin called
  /\ Native.FFTdim = 3
  /\ Native.numberBatches = 2
  /\ Native.performZeropadding = <<0, 1, 1>>
  /\ Native.symmetricKernel = 1
  /\ Native.kernelConvolution = 0

\* C22 (as claimed): the native convolution flag of a plan is set exactly when
\* convolution() was called on its builder, and the native lookup-table flag
\* exactly when use_lut() was called.
C22_ConvolutionAndLutTranslated ==
  is_some(guard) =>
    /\ Native.performConvolution = Bit("convolution" \in called)
    /\ Native.useLUT = Bit("use_lut" \in called)

\* C26 (as claimed): every read accessor of a Config returns what the builder
\* setter of the same name stored; symmetric_kernel() is true exactly when
\* symmetric_kernel() was called on the builder.
C26_AccessorsReturnStored ==
  is_some(config) =>
    /\ Config_buffer(Cfg) = builder.buffer
    /\ Config_temp_buffer(Cfg) = builder.temp_buffer
    /\ Config_input_buffer(Cfg) = builder.input_buffer
    /\ Config_output_buffer(Cfg) = builder.output_buffer
    /\ Config_kernel_convolution(Cfg) = ("kernel_convolution" \in called)
    /\ Config_convolution(Cfg) = ("convolution" \in called)
    /\ Config_r2c(Cfg) = ("r2c" \in called)
    /\ Config_normalize(Cfg) = ("normalize" \in called)
    /\ Config_use_lut(Cfg) = ("use_lut" \in called)
    /\ Config_coordinate_features(Cfg) = builder.coordinate_features
    /\ Config_batch_count(Cfg) = builder.batch_count
    /\ Config_symmetric_kernel(Cfg) = ("symmetric_kernel" \in called)

\* C24 (as claimed): the Native Launch Guard built for a forward/inverse call
\* holds, for every buffer override of the Launch Parameters, the handle of
\* the buffer and, like the configuration guard in its keep_alive field, a
\* strong reference to the buffer.
C24_LaunchGuardRetainsBuffers ==
  is_some(launched) =>
    LET p == LaunchParams_as_sys(Last.params)
    IN \A c \in Categories :
         is_some(Last.params[c]) =>
           /\ p[c] = Some(BufferHandle(unwrap(Last.params[c])))
           /\ "keep_alive" \in DOMAIN p
           /\ p.keep_alive[c] = Last.params[c]

\* The Launch Parameters that conflict with no category of the guard g.
ValidLaunchParams(g) ==
  {params \in AllLaunchParams : App_launch_check(g, LaunchParams_as_sys(params)) = None}

\* C25: a forward/inverse call that returns a LaunchError made no native
\* call, the append not being invoked, and leaves the plan Ready with its
\* guard; a forward with any valid Launch Parameters on the plan as it was
\* left makes the native append call.
C25_LaunchErrorBeforeAppend ==
  [][ (launched' # launched /\ unwrap(launched').result.kind = "Launch") =>
        /\ ~unwrap(launched').appended
        /\ calls' = calls
        /\ app' = "Ready"
        /\ guard' = guard
        /\ NoOverrides \in ValidLaunchParams(unwrap(guard'))
        /\ \A params \in ValidLaunchParams(unwrap(guard')) :
             App_forward(unwrap(guard'), params, VKFFT_SUCCESS).calls
               = <<Call("VkFFTAppend", -1)>> ]_vars

\* The last call returned a LaunchError after an earlier call on the same
\* plan was appended; the plan is Ready and one more append is allowed.
C25_Witness ==
  /\ is_some(launched)
  /\ Last.result.kind = "Launch"
  /\ ~Last.appended
  /\ app = "Ready"
  /\ Appends(calls) = 1

\* C23: whenever a plan has a guard, every pointer field of the native
\* structure holds the address of the slot it names inside the block of that
\* guard, or null; and from one state of the plan to the next, the plan handle
\* moved or not, the block is at the same address and the structure holds the
\* same addresses.
C23_GuardPinned ==
  [][ is_some(guard') =>
        /\ is_some(memory'.block)
        /\ unwrap(memory'.pointers)
             = ConfigGuard_pointers(unwrap(guard'), unwrap(memory'.block))
        /\ \A f \in {"physicalDevice", "device", "queue", "commandPool", "fence"} :
             unwrap(memory'.pointers)[f] # 0
        /\ is_some(guard) => /\ memory'.block = memory.block
                             /\ memory'.pointers = memory.pointers ]_vars

\* The handle of a plan whose configuration holds a concrete primary buffer
\* and a size-only kernel was moved away from where App::new returned it.
C23_Witness ==
  /\ is_some(guard)
  /\ app = "Ready"
  /\ memory.handle # 1
  /\ unwrap(memory.pointers).buffer # 0
  /\ unwrap(memory.pointers).bufferSize # 0
  /\ unwrap(memory.pointers).kernelSize # 0
  /\ unwrap(memory.pointers).kernel = 0

====
